---- MODULE Spec2Model ----
(***************************************************************************)
(* Model of manim/utils/katex_renderer.py: the KaTeX entry point           *)
(* katex_to_svg_file with its availability probe, its on-disk SVG cache    *)
(* keyed by a truncated SHA-256, and the LaTeX fallback renderer.          *)
(*                                                                         *)
(* Python strings are sequences of code points (naturals); the comment     *)
(* beside each literal gives its text.                                     *)
(***************************************************************************)
EXTENDS Integers, Sequences, FiniteSets, TLC

(***************************************************************************)
(* hashlib.sha256 (FIPS 180-4).  A 32-bit word is a pair <<hi, lo>> of     *)
(* 16-bit halves, so that every intermediate value fits a machine integer. *)
(***************************************************************************)
Half == 65536

RECURSIVE BitOp16(_, _, _, _)
\* Bitwise combination of the low n bits of a and b; op 0 is and, op 1 is xor.
BitOp16(op, a, b, n) ==
    IF n = 0 THEN 0
    ELSE (IF op = 0 THEN (a % 2) * (b % 2) ELSE ((a % 2) + (b % 2)) % 2)
         + 2 * BitOp16(op, a \div 2, b \div 2, n - 1)

WAnd(x, y) == <<BitOp16(0, x[1], y[1], 16), BitOp16(0, x[2], y[2], 16)>>

WXor(x, y) == <<BitOp16(1, x[1], y[1], 16), BitOp16(1, x[2], y[2], 16)>>

WNot(x) == <<Half - 1 - x[1], Half - 1 - x[2]>>

\* Addition modulo 2^32.
WAdd(x, y) ==
    LET lo == x[2] + y[2]
    IN  <<(x[1] + y[1] + (lo \div Half)) % Half, lo % Half>>

\* Rotate right by n, 0 < n < 32.
RotR(x, n) ==
    LET y == IF n >= 16 THEN <<x[2], x[1]>> ELSE x
        m == n % 16
    IN  IF m = 0 THEN y
        ELSE <<(y[1] \div (2^m)) + (y[2] % (2^m)) * (2^(16 - m)),
               (y[2] \div (2^m)) + (y[1] % (2^m)) * (2^(16 - m))>>

\* Shift right by n, 0 < n < 16.
ShR(x, n) ==
    <<x[1] \div (2^n), (x[2] \div (2^n)) + (x[1] % (2^n)) * (2^(16 - n))>>

BigSigma0(x) == WXor(WXor(RotR(x, 2), RotR(x, 13)), RotR(x, 22))

BigSigma1(x) == WXor(WXor(RotR(x, 6), RotR(x, 11)), RotR(x, 25))

SmallSigma0(x) == WXor(WXor(RotR(x, 7), RotR(x, 18)), ShR(x, 3))

SmallSigma1(x) == WXor(WXor(RotR(x, 17), RotR(x, 19)), ShR(x, 10))

Ch(x, y, z) == WXor(WAnd(x, y), WAnd(WNot(x), z))

Maj(x, y, z) == WXor(WXor(WAnd(x, y), WAnd(x, z)), WAnd(y, z))

\* The round constants: the fractional parts of the cube roots of the first
\* 64 primes.
ShaK ==
    <<
        <<17034, 12184>>, <<28983, 17553>>, <<46528, 64463>>, <<59829, 56229>>,
        <<14678, 49755>>, <<23025, 4593>>, <<37439, 33444>>, <<43804, 24277>>,
        <<55303, 43672>>, <<4739, 23297>>, <<9265, 34238>>, <<21772, 32195>>,
        <<29374, 23924>>, <<32990, 45566>>, <<39900, 1703>>, <<49563, 61812>>,
        <<58523, 27073>>, <<61374, 18310>>, <<4033, 40390>>, <<9228, 41420>>,
        <<11753, 11375>>, <<19060, 33962>>, <<23728, 43484>>, <<30457, 35034>>,
        <<38974, 20818>>, <<43057, 50797>>, <<45059, 10184>>, <<48985, 32711>>,
        <<50912, 3059>>, <<54695, 37191>>, <<1738, 25425>>, <<5161, 10599>>,
        <<10167, 2693>>, <<11803, 8504>>, <<19756, 28156>>, <<21304, 3347>>,
        <<25866, 29524>>, <<30314, 2747>>, <<33218, 51502>>, <<37490, 11397>>,
        <<41663, 59553>>, <<43034, 26187>>, <<49739, 35696>>, <<51052, 20899>>,
        <<53650, 59417>>, <<54937, 1572>>, <<62478, 13701>>, <<4202, 41072>>,
        <<6564, 49430>>, <<7735, 27656>>, <<10056, 30540>>, <<13488, 48309>>,
        <<14620, 3251>>, <<20184, 43594>>, <<23452, 51791>>, <<26670, 28659>>,
        <<29839, 33518>>, <<30885, 25455>>, <<33992, 30740>>, <<36039, 520>>,
        <<37054, 65530>>, <<42064, 27883>>, <<48889, 41975>>, <<50801, 30962>>
    >>

\* The initial hash value: the fractional parts of the square roots of the
\* first 8 primes.
ShaH0 ==
    <<
        <<27145, 58983>>, <<47975, 44677>>, <<15470, 62322>>, <<42319, 62778>>,
        <<20750, 21119>>, <<39685, 26764>>, <<8067, 55723>>, <<23520, 52505>>
    >>

RECURSIVE Zeros(_)
Zeros(n) == IF n = 0 THEN <<>> ELSE <<0>> \o Zeros(n - 1)

\* The message padded to a multiple of 64 bytes: 0x80, zeros, and the bit
\* length as a 64-bit big-endian integer.
ShaPad(bytes) ==
    LET n    == Len(bytes)
        bits == 8 * n
        z    == (119 - (n % 64)) % 64
    IN  bytes \o <<128>> \o Zeros(z) \o Zeros(4)
        \o <<(bits \div 16777216) % 256, (bits \div 65536) % 256,
             (bits \div 256) % 256, bits % 256>>

\* Word t (1..16) of the 64-byte block that starts after byte `off`.
BlockWord(padded, off, t) ==
    LET i == off + 4 * (t - 1)
    IN  <<padded[i + 1] * 256 + padded[i + 2], padded[i + 3] * 256 + padded[i + 4]>>

RECURSIVE ShaSchedule(_)
\* The message schedule, extended from 16 to 64 words.
ShaSchedule(w) ==
    IF Len(w) = 64 THEN w
    ELSE LET t == Len(w) + 1
         IN  ShaSchedule(Append(w,
                 WAdd(WAdd(SmallSigma1(w[t - 2]), w[t - 7]),
                      WAdd(SmallSigma0(w[t - 15]), w[t - 16]))))

\* One round of the compression function on the working variables s.
ShaRound(s, wt, kt) ==
    LET t1 == WAdd(WAdd(WAdd(s[8], BigSigma1(s[5])),
                        WAdd(Ch(s[5], s[6], s[7]), kt)), wt)
        t2 == WAdd(BigSigma0(s[1]), Maj(s[1], s[2], s[3]))
    IN  <<WAdd(t1, t2), s[1], s[2], s[3], WAdd(s[4], t1), s[5], s[6], s[7]>>

RECURSIVE ShaRounds(_, _, _)
\* Rounds t..64 of the compression function.  (The test on Len(s) has the
\* working variables evaluated round by round.)
ShaRounds(s, w, t) ==
    IF t > 64 \/ Len(s) # 8 THEN s
    ELSE ShaRounds(ShaRound(s, w[t], ShaK[t]), w, t + 1)

RECURSIVE ShaBlocks(_, _, _)
ShaBlocks(h, padded, off) ==
    IF off >= Len(padded) THEN h
    ELSE LET w == ShaSchedule([t \in 1..16 |-> BlockWord(padded, off, t)])
             s == ShaRounds(h, w, 1)
         IN  ShaBlocks([i \in 1..8 |-> WAdd(h[i], s[i])], padded, off + 64)

HexChar(d) == IF d < 10 THEN 48 + d ELSE 87 + d

\* hexdigest(): 64 lower-case hexadecimal characters.
Sha256Hex(bytes) ==
    LET h == ShaBlocks(ShaH0, ShaPad(bytes), 0)
    IN  [i \in 1..64 |->
            LET half == h[((i - 1) \div 8) + 1][(((i - 1) % 8) \div 4) + 1]
            IN  HexChar((half \div (16^(3 - ((i - 1) % 4)))) % 16)]

RECURSIVE Utf8(_)
\* str.encode(): UTF-8, for code points below 0x800.
Utf8(s) ==
    IF s = <<>> THEN <<>>
    ELSE (IF Head(s) < 128 THEN <<Head(s)>>
          ELSE <<192 + (Head(s) \div 64), 128 + (Head(s) % 64)>>) \o Utf8(Tail(s))

(***************************************************************************)
(* Python values.  A value is a record [t, v]: a str holds its code        *)
(* points, an int its number, None nothing.                                *)
(***************************************************************************)
PyNone == [t |-> "None", v |-> <<>>]

Str(s) == [t |-> "str", v |-> s]

PyInt(n) == [t |-> "int", v |-> n]

RECURSIVE Digits(_)
Digits(n) == IF n < 10 THEN <<48 + n>> ELSE Digits(n \div 10) \o <<48 + (n % 10)>>

\* str(e)
PyStr(e) ==
    CASE e.t = "str"  -> e.v
      [] e.t = "None" -> <<78, 111, 110, 101>>                    \* "None"
      [] e.t = "int"  -> IF e.v < 0 THEN <<45>> \o Digits(0 - e.v) ELSE Digits(e.v)

Has(s, c) == \E i \in 1..Len(s) : s[i] = c

RECURSIVE Escape(_, _)
\* s with a backslash before every backslash and every quote character q.
Escape(s, q) ==
    IF s = <<>> THEN <<>>
    ELSE (IF Head(s) = 92 \/ Head(s) = q THEN <<92, Head(s)>> ELSE <<Head(s)>>)
         \o Escape(Tail(s), q)

\* repr(e), for strings of printable ASCII: single quotes, unless the string
\* holds a single quote and no double quote.
PyRepr(e) ==
    IF e.t = "str"
    THEN LET q == IF Has(e.v, 39) /\ ~Has(e.v, 34) THEN 34 ELSE 39
         IN  <<q>> \o Escape(e.v, q) \o <<q>>
    ELSE PyStr(e)

RECURSIVE DictItems(_)
DictItems(kw) ==
    IF kw = <<>> THEN <<>>
    ELSE PyRepr(Str(kw[1][1])) \o <<58, 32>> \o PyRepr(kw[1][2])   \* ": "
         \o (IF Len(kw) > 1 THEN <<44, 32>> ELSE <<>>)             \* ", "
         \o DictItems(Tail(kw))

\* str(kwargs): kwargs is the sequence of <<name, value>> items of the dict in
\* insertion order, which for **kwargs is the order of the call's keywords.
DictStr(kw) == <<123>> \o DictItems(kw) \o <<125>>

\* dict.__eq__: the same names with equal values, in any order.
DictEq(kw1, kw2) == {kw1[i] : i \in 1..Len(kw1)} = {kw2[i] : i \in 1..Len(kw2)}

StartsWith(s, prefix) ==
    Len(s) >= Len(prefix) /\ SubSeq(s, 1, Len(prefix)) = prefix

\* The last 16 characters of the digest are taken instead of the first.
katex_hash_Tail(expression) ==
    LET id_str == PyStr(expression)
    IN  SubSeq(Sha256Hex(Utf8(id_str)), 49, 64)

\* katex_hash: the first 16 characters of the SHA-256 hex digest of str(e).
katex_hash(expression) ==
    LET id_str == PyStr(expression)
    IN  SubSeq(Sha256Hex(Utf8(id_str)), 1, 16)

\* The keyword arguments are left out of the key.
CacheKey_NoKwargs(expression, environment, kwargs) ==
    PyStr(Str(expression)) \o <<95>> \o PyStr(environment)

\* cache_key = f"{expression}_{environment}_{kwargs}"
CacheKey(expression, environment, kwargs) ==
    PyStr(Str(expression)) \o <<95>> \o PyStr(environment) \o <<95>> \o DictStr(kwargs)

(***************************************************************************)
(* The calls of katex_to_svg_file the model makes.                         *)
(***************************************************************************)
Request(expression, environment, kwargs) ==
    [expression |-> expression, environment |-> environment, kwargs |-> kwargs]

RequestList ==
    << \* katex_to_svg_file("x")
       Request(<<120>>, PyNone, <<>>),
       \* katex_to_svg_file("x", a=1, b=2)
       Request(<<120>>, PyNone, << <<(<<97>>), PyInt(1)>>, <<(<<98>>), PyInt(2)>> >>),
       \* katex_to_svg_file("x", b=2, a=1)
       Request(<<120>>, PyNone, << <<(<<98>>), PyInt(2)>>, <<(<<97>>), PyInt(1)>> >>),
       \* katex_to_svg_file("x^2", "figure")
       Request(<<120, 94, 50>>, Str(<<102, 105, 103, 117, 114, 101>>), <<>>),
       \* katex_to_svg_file("a_b")
       Request(<<97, 95, 98>>, PyNone, <<>>),
       \* katex_to_svg_file("a", "b_None")
       Request(<<97>>, Str(<<98, 95, 78, 111, 110, 101>>), <<>>),
       \* katex_to_svg_file("$x$")
       Request(<<36, 120, 36>>, PyNone, <<>>),
       \* katex_to_svg_file("\begin{align*}x\end{align*}", "align*")
       Request(<<92, 98, 101, 103, 105, 110, 123, 97, 108, 105, 103, 110, 42, 125, 120, 92, 101, 110, 100, 123, 97, 108, 105, 103, 110, 42, 125>>,
               Str(<<97, 108, 105, 103, 110, 42>>), <<>>)
    >>

\* How many of the requests of RequestList are made.
NumRequests == 6

Requests == {RequestList[i] : i \in 1..NumRequests}

\* The threads of the program that call katex_to_svg_file.
Procs == {"main"}

(***************************************************************************)
(* The file system: the directory config.get_dir("tex_dir") and the files   *)
(* in it, by name.  A file holds the SVG the LaTeX pipeline made of a TeX   *)
(* source, the rectangle placeholder, or nothing yet (opened for writing). *)
(***************************************************************************)
LatexSvg(tex) == [kind |-> "latex", tex |-> tex]

Placeholder == [kind |-> "placeholder", tex |-> <<>>]

EmptyFile == [kind |-> "empty", tex |-> <<>>]

IsSvg(content) == content.kind \in {"latex", "placeholder"}

Path(name) == [dir |-> "tex_dir", name |-> name]

\* svg_file = tex_dir / (katex_hash(cache_key) + ".svg")
SvgFile(r) ==
    LET cache_key == CacheKey(r.expression, r.environment, r.kwargs)
    IN  Path(katex_hash(Str(cache_key)) \o <<46, 115, 118, 103>>)   \* ".svg"

\* svg_file for every request, computed once.
SvgFiles == [r \in Requests |-> SvgFile(r)]

CacheKeys == {CacheKey(r.expression, r.environment, r.kwargs) : r \in Requests}

(***************************************************************************)
(* Exceptions: the classes the module raises or catches, each with its     *)
(* base class.                                                             *)
(***************************************************************************)
Bases ==
    [TimeoutExpired    |-> "SubprocessError",
     SubprocessError   |-> "Exception",
     FileNotFoundError |-> "OSError",
     FileExistsError   |-> "OSError",
     OSError           |-> "Exception",
     ValueError        |-> "Exception",
     RuntimeError      |-> "Exception",
     Exception         |-> "BaseException"]

RECURSIVE IsSubclass(_, _)
IsSubclass(c, d) == c = d \/ (c \in DOMAIN Bases /\ IsSubclass(Bases[c], d))

\* Whether `except (classes)` catches an exception of class exc.
Handles(classes, exc) == \E c \in classes : IsSubclass(exc, c)

\* What a call did: the operation, its string argument, and how it ended.
Event(op, arg, out) == [op |-> op, arg |-> arg, out |-> out]

BoolStr(b) == IF b THEN "True" ELSE "False"

(***************************************************************************)
(* ensure_katex_available.  A probe ends by exiting 0, exiting non-zero,    *)
(* running into its timeout, or not starting because there is no node      *)
(* binary.                                                                 *)
(***************************************************************************)
ProbeOutcomes == {"exit0", "exit1", "timeout", "notfound"}

\* The exception subprocess.run raises for a probe's outcome.
ProbeException(out) ==
    CASE out = "timeout"  -> "TimeoutExpired"
      [] out = "notfound" -> "FileNotFoundError"
      [] OTHER            -> "none"

\* Only the timeout is caught.
ProbeHandled_TimeoutOnly == {"TimeoutExpired"}

\* except (subprocess.TimeoutExpired, FileNotFoundError)
ProbeHandled == {"TimeoutExpired", "FileNotFoundError"}

\* The outcome of the try block once subprocess.run raised exc.
ProbeExcept(exc, events) ==
    IF Handles(ProbeHandled, exc)
    THEN [ret |-> FALSE, raised |-> "none", events |-> events]
    ELSE [ret |-> FALSE, raised |-> exc, events |-> events]

\* ensure_katex_available() when the two probes would end as node and katex.
ensure_katex_available(node, katex) ==
    LET run1 == Event("node --version", <<>>, node)
        run2 == Event("node -e require('katex')", <<>>, katex)
    IN  IF ProbeException(node) # "none"
        THEN ProbeExcept(ProbeException(node), <<run1>>)
        ELSE IF node # "exit0"
        THEN [ret |-> FALSE, raised |-> "none", events |-> <<run1>>]
        ELSE IF ProbeException(katex) # "none"
        THEN ProbeExcept(ProbeException(katex), <<run1, run2>>)
        ELSE [ret |-> katex = "exit0", raised |-> "none", events |-> <<run1, run2>>]

(***************************************************************************)
(* _process_expression_for_katex and _render_katex_to_svg.                 *)
(***************************************************************************)
\* "center" is not one of the environments KaTeX is taken to handle.
KnownEnvironments_NoCenter ==
    {PyNone,
     Str(<<97, 108, 105, 103, 110, 42>>),
     Str(<<101, 113, 117, 97, 116, 105, 111, 110, 42>>)}

KnownEnvironments ==
    {PyNone,
     Str(<<97, 108, 105, 103, 110, 42>>),                      \* "align*"
     Str(<<101, 113, 117, 97, 116, 105, 111, 110, 42>>),       \* "equation*"
     Str(<<99, 101, 110, 116, 101, 114>>)}                     \* "center"

\* The expression is wrapped in its environment.
_process_expression_for_katex_Wrapped(expression, environment) ==
    [ret    |-> IF environment = PyNone THEN expression
                ELSE <<92, 98, 101, 103, 105, 110, 123>> \o environment.v \o <<125>>
                     \o expression
                     \o <<92, 101, 110, 100, 123>> \o environment.v \o <<125>>,
     events |-> <<>>]

_process_expression_for_katex(expression, environment) ==
    [ret    |-> expression,
     events |-> IF environment \in KnownEnvironments THEN <<>>
                ELSE <<Event("logger.warning", PyStr(environment),
                             "KaTeX may not support the environment")>>]

\* How the LaTeX pipeline ends: tex_to_svg_file returns or raises, and the
\* file it names is read or cannot be.
TexOutcomes ==
    {[call |-> "ok", read |-> "ok"],
     [call |-> "ValueError", read |-> "none"],
     [call |-> "ok", read |-> "OSError"]}

\* Only a leading "$" counts as math mode.
MathExpression_DollarOnly(expression) ==
    IF StartsWith(expression, <<36>>) THEN expression
    ELSE <<36>> \o expression \o <<36>>

\* The expression wrapped in math mode if it is not already.
MathExpression(expression) ==
    IF StartsWith(expression, <<36>>)                               \* "$"
       \/ StartsWith(expression, <<92, 98, 101, 103, 105, 110>>)    \* "\begin"
    THEN expression
    ELSE <<36>> \o expression \o <<36>>

\* Only a LaTeX error is caught, not a failure to read the file.
RenderHandled_ValueErrorOnly == {"ValueError"}

\* except Exception
RenderHandled == {"Exception"}

\* The renderer goes through the KaTeX/MathJax pipeline.
_render_katex_to_svg_ViaMathjax(expression, tex) ==
    [ret    |-> [kind |-> "mathjax", tex |-> expression],
     raised |-> "none",
     events |-> <<Event("_katex_to_svg_via_mathjax", expression, "call"),
                  Event("node -e conversion_script", <<>>, "exit0"),
                  Event("_improve_svg_for_manim", <<>>, "return")>>]

_render_katex_to_svg(expression, tex) ==
    LET math_expression == MathExpression(expression)
        call   == Event("tex_to_svg_file", math_expression, tex.call)
        read   == Event("open(svg_path).read", <<>>, tex.read)
        events == IF tex.call = "ok" THEN <<call, read>> ELSE <<call>>
        exc    == IF tex.call # "ok" THEN tex.call
                  ELSE IF tex.read # "ok" THEN tex.read ELSE "none"
    IN  IF exc = "none"
        THEN [ret |-> LatexSvg(math_expression), raised |-> "none", events |-> events]
        ELSE IF Handles(RenderHandled, exc)
        THEN [ret |-> Placeholder, raised |-> "none",
              events |-> events \o <<Event("logger.warning", expression,
                                           "LaTeX fallback failed")>>]
        ELSE [ret |-> EmptyFile, raised |-> exc, events |-> events]

(***************************************************************************)
(* Text: str.strip, substring search, and re.sub for the five patterns of  *)
(* _improve_svg_for_manim.                                                 *)
(***************************************************************************)
\* The code points c with chr(c).isspace(), which are also those \s matches.
Whitespace ==
    {9, 10, 11, 12, 13, 28, 29, 30, 31, 32, 133, 160, 5760}
    \cup (8192..8202) \cup {8232, 8233, 8239, 8287, 12288}

\* min(S), or 0 for the empty set
Least(S) == IF S = {} THEN 0 ELSE CHOOSE i \in S : \A j \in S : i <= j

\* max(S), or 0 for the empty set
Greatest(S) == IF S = {} THEN 0 ELSE CHOOSE i \in S : \A j \in S : i >= j

\* s[first:last + 1] with positions counted from 1, empty when first is 0
Slice(s, first, last) == IF first = 0 THEN <<>> ELSE SubSeq(s, first, last)

\* s.strip()
Strip(s) ==
    Slice(s, Least({i \in 1..Len(s) : s[i] \notin Whitespace}),
             Greatest({i \in 1..Len(s) : s[i] \notin Whitespace}))

\* s.startswith(sub, i - 1), counting positions from 1
MatchAt(s, i, sub) ==
    /\ i >= 1
    /\ i + Len(sub) - 1 <= Len(s)
    /\ SubSeq(s, i, i + Len(sub) - 1) = sub

\* s.find(sub, i - 1) + 1: where sub first occurs at or after position i, or 0
Find(s, sub, i) == Least({k \in i..(Len(s) - Len(sub) + 1) : MatchAt(s, k, sub)})

\* sub in s
Contains(s, sub) == Find(s, sub, 1) # 0

\* The literal sub matched at position i > 0: the position after it, or 0.
LitAt(s, i, sub) == IF i # 0 /\ MatchAt(s, i, sub) THEN i + Len(sub) ELSE 0

\* \s+ followed by the literal sub, matched at position i > 0: the position
\* after the match, or 0.  The literals do not start with white space, so
\* \s+ takes the whole run of white space.
SpacesThen(s, i, sub) ==
    IF i = 0 \/ i > Len(s) \/ s[i] \notin Whitespace THEN 0
    ELSE LitAt(s, Least({j \in i..(Len(s) + 1) : j > Len(s) \/ s[j] \notin Whitespace}),
               sub)

\* The first sub after position i > 0, and the position after it; or 0.
FindAfter(s, i, sub) ==
    IF i = 0 THEN 0 ELSE LitAt(s, Find(s, sub, i + 1), sub)

\* re.match of the pattern at position i of s: the position after the match,
\* or 0 when there is none.  No pattern matches the empty string.
ReMatch(pattern, s, i) ==
    CASE pattern = "<title[^>]*>.*?</title>" ->
             \* [^>]* stops at the first ">", .*? at the first "</title>"
             IF ~MatchAt(s, i, <<60, 116, 105, 116, 108, 101>>) THEN 0
             ELSE FindAfter(s, Find(s, <<62>>, i + 6),
                            <<60, 47, 116, 105, 116, 108, 101, 62>>)
      [] pattern = "\\s+stroke=\"currentColor\"\\s+fill=\"currentColor\"" ->
             SpacesThen(s, SpacesThen(s, i, <<115, 116, 114, 111, 107, 101, 61, 34, 99, 117, 114, 114, 101, 110, 116, 67, 111, 108, 111, 114, 34>>),
                        <<102, 105, 108, 108, 61, 34, 99, 117, 114, 114, 101, 110, 116, 67, 111, 108, 111, 114, 34>>)
      [] pattern = "<g\\s+stroke=\"currentColor\"\\s+fill=\"currentColor\"" ->
             SpacesThen(s, SpacesThen(s, LitAt(s, i, <<60, 103>>),
                                      <<115, 116, 114, 111, 107, 101, 61, 34, 99, 117, 114, 114, 101, 110, 116, 67, 111, 108, 111, 114, 34>>),
                        <<102, 105, 108, 108, 61, 34, 99, 117, 114, 114, 101, 110, 116, 67, 111, 108, 111, 114, 34>>)
      [] pattern = "fill=\"#[0-9A-Fa-f]{6}\"" ->
             IF /\ MatchAt(s, i, <<102, 105, 108, 108, 61, 34, 35>>)
                /\ i + 13 <= Len(s)
                /\ \A k \in (i + 7)..(i + 12) :
                       s[k] \in (48..57) \cup (65..70) \cup (97..102)
                /\ s[i + 13] = 34
             THEN i + 14 ELSE 0
      [] pattern = "stroke-width=\"1\"" ->
             LitAt(s, i, <<115, 116, 114, 111, 107, 101, 45, 119, 105, 100, 116, 104, 61, 34, 49, 34>>)

\* The leftmost match of the pattern at or after position i of s, as
\* <<start, position after the match>>, or <<0, 0>>.
FirstMatch(pattern, s, i) ==
    <<Least({k \in i..Len(s) : ReMatch(pattern, s, k) # 0}),
      ReMatch(pattern, s, Least({k \in i..Len(s) : ReMatch(pattern, s, k) # 0}))>>

\* re.sub(pattern, repl, s), from position i on, with acc the text so far and
\* match the leftmost match from i on: it is replaced, and the scan goes on
\* after it.
RECURSIVE ReSubFrom(_, _, _, _, _, _)
ReSubFrom(pattern, repl, s, i, acc, match) ==
    IF Len(acc) < 0 \/ match[1] = 0 THEN acc \o SubSeq(s, i, Len(s))
    ELSE ReSubFrom(pattern, repl, s, match[2],
                   acc \o SubSeq(s, i, match[1] - 1) \o repl,
                   FirstMatch(pattern, s, match[2]))

ReSub(pattern, repl, s) ==
    ReSubFrom(pattern, repl, s, 1, <<>>, FirstMatch(pattern, s, 1))

(***************************************************************************)
(* _improve_svg_for_manim                                                  *)
(***************************************************************************)
_improve_svg_for_manim(svg_content) ==
    LET s1 == ReSub("<title[^>]*>.*?</title>", <<>>, svg_content)
        s2 == ReSub("\\s+stroke=\"currentColor\"\\s+fill=\"currentColor\"", <<>>, s1)
        s3 == ReSub("<g\\s+stroke=\"currentColor\"\\s+fill=\"currentColor\"",
                    <<60, 103>>, s2)
        \* fill="white"
        s4 == ReSub("fill=\"#[0-9A-Fa-f]{6}\"", <<102, 105, 108, 108, 61, 34, 119, 104, 105, 116, 101, 34>>, s3)
        \* stroke-width="2"
        s5 == ReSub("stroke-width=\"1\"", <<115, 116, 114, 111, 107, 101, 45, 119, 105, 100, 116, 104, 61, 34, 50, 34>>, s4)
    IN  s5

(***************************************************************************)
(* _create_simple_math_svg.  A str is a record: Text(s) with the code      *)
(* points s, or Literal(lines) for a literal of the source, with its lines *)
(* as they stand there.                                                    *)
(***************************************************************************)
Text(s) == [kind |-> "text", text |-> s]

Literal(lines) == [kind |-> "literal", lines |-> lines]

_create_simple_math_svg(expression) ==
    LET char_width == 8
        width      == (Len(expression) * char_width) + 10
        height     == 20
    IN  IF expression = <<69, 32, 61, 32, 109, 99, 94, 50>>                     \* "E = mc^2"
        THEN
            Literal(<<"<?xml version='1.0' encoding='UTF-8'?>",
                     "<!-- Generated by KaTeX renderer -->",
                     "<svg version='1.1' xmlns='http://www.w3.org/2000/svg' xmlns:xlink='http://www.w3.org/1999/xlink' width='38.241975pt' height='8.607754pt' viewBox='152.485491 -12.194341 38.241975 8.607754'>",
                     "",
                     "<defs>",
                     "<path id='g0-69' d='M7.053549-2.321295C7.073474-2.371108 7.103362-2.440847 7.103362-2.460772C7.103362-2.470735 7.103362-2.570361 6.983811-2.570361C6.894147-2.570361 6.874222-2.510585 6.854296-2.450809C6.206725-.976339 5.838107-.308842 4.134496-.308842H2.67995C2.540473-.308842 2.520548-.308842 2.460772-.318804C2.361146-.328767 2.331258-.33873 2.331258-.418431C2.331258-.448319 2.331258-.468244 2.381071-.647572L3.058531-3.367372H4.044832C4.891656-3.367372 4.891656-3.158157 4.891656-2.909091C4.891656-2.839352 4.891656-2.719801 4.821918-2.420922C4.801993-2.371108 4.79203-2.34122 4.79203-2.311333C4.79203-2.261519 4.83188-2.201743 4.921544-2.201743C5.001245-2.201743 5.031133-2.251557 5.070984-2.400996L5.638854-4.732254C5.638854-4.79203 5.589041-4.841843 5.519303-4.841843C5.429639-4.841843 5.409714-4.782067 5.379826-4.662516C5.17061-3.905355 4.991283-3.676214 4.07472-3.676214H3.138232L3.73599-6.07721C3.825654-6.425903 3.835616-6.465753 4.273973-6.465753H5.678705C6.894147-6.465753 7.193026-6.176837 7.193026-5.3599C7.193026-5.120797 7.193026-5.100872 7.153176-4.83188C7.153176-4.772105 7.143213-4.702366 7.143213-4.652553S7.173101-4.533001 7.262765-4.533001C7.372354-4.533001 7.382316-4.592777 7.402242-4.782067L7.601494-6.505604C7.631382-6.774595 7.581569-6.774595 7.332503-6.774595H2.30137C2.102117-6.774595 2.002491-6.774595 2.002491-6.575342C2.002491-6.465753 2.092154-6.465753 2.281445-6.465753C2.650062-6.465753 2.929016-6.465753 2.929016-6.286426C2.929016-6.246575 2.929016-6.22665 2.879203-6.047323L1.564134-.777086C1.464508-.388543 1.444583-.308842 .657534-.308842C.488169-.308842 .37858-.308842 .37858-.119552C.37858 0 .468244 0 .657534 0H5.828144C6.057285 0 6.067248-.009963 6.136986-.169365L7.053549-2.321295Z'/>",
                     "<path id='g1-61' d='M6.844334-3.257783C6.993773-3.257783 7.183064-3.257783 7.183064-3.457036S6.993773-3.656289 6.854296-3.656289H.886675C.747198-3.656289 .557908-3.656289 .557908-3.457036S.747198-3.257783 .896638-3.257783H6.844334ZM6.854296-1.325031C6.993773-1.325031 7.183064-1.325031 7.183064-1.524284S6.993773-1.723537 6.844334-1.723537H.896638C.747198-1.723537 .557908-1.723537 .557908-1.524284S.747198-1.325031 .886675-1.325031H6.854296Z'/>",
                     "<path id='g0-109' d='M.876712-.587796C.846824-.438356 .787049-.209215 .787049-.159402C.787049 .019925 .926526 .109589 1.075965 .109589C1.195517 .109589 1.374844 .029888 1.444583-.169365C1.454545-.18929 1.574097-.657534 1.633873-.9066L1.853051-1.803238C1.912827-2.022416 1.972603-2.241594 2.022416-2.470735C2.062267-2.6401 2.141968-2.929016 2.15193-2.968867C2.30137-3.277709 2.82939-4.184309 3.775841-4.184309C4.224159-4.184309 4.313823-3.815691 4.313823-3.486924C4.313823-3.237858 4.244085-2.958904 4.164384-2.660025L3.88543-1.504359L3.686177-.747198C3.646326-.547945 3.556663-.209215 3.556663-.159402C3.556663 .019925 3.696139 .109589 3.845579 .109589C4.154421 .109589 4.214197-.139477 4.293898-.458281C4.433375-1.016189 4.801993-2.470735 4.891656-2.859278C4.921544-2.988792 5.449564-4.184309 6.535492-4.184309C6.963885-4.184309 7.073474-3.845579 7.073474-3.486924C7.073474-2.919054 6.655044-1.783313 6.455791-1.255293C6.366127-1.016189 6.326276-.9066 6.326276-.707347C6.326276-.239103 6.674969 .109589 7.143213 .109589C8.079701 .109589 8.448319-1.344956 8.448319-1.424658C8.448319-1.524284 8.358655-1.524284 8.328767-1.524284C8.229141-1.524284 8.229141-1.494396 8.179328-1.344956C8.029888-.816936 7.711083-.109589 7.163138-.109589C6.993773-.109589 6.924035-.209215 6.924035-.438356C6.924035-.687422 7.013699-.926526 7.103362-1.145704C7.292653-1.663761 7.711083-2.769614 7.711083-3.337484C7.711083-3.985056 7.312578-4.403487 6.56538-4.403487S5.310087-3.965131 4.941469-3.437111C4.931507-3.566625 4.901619-3.905355 4.622665-4.144458C4.373599-4.353674 4.054795-4.403487 3.805729-4.403487C2.909091-4.403487 2.420922-3.765878 2.251557-3.536737C2.201743-4.104608 1.783313-4.403487 1.334994-4.403487C.876712-4.403487 .687422-4.014944 .597758-3.835616C.418431-3.486924 .288917-2.899128 .288917-2.86924C.288917-2.769614 .388543-2.769614 .408468-2.769614C.508095-2.769614 .518057-2.779577 .577833-2.998755C.747198-3.706102 .946451-4.184309 1.305106-4.184309C1.464508-4.184309 1.613948-4.104608 1.613948-3.726027C1.613948-3.516812 1.58406-3.407223 1.454545-2.889166L.876712-.587796Z'/>",
                     "<path id='g0-99' d='M3.945205-3.785803C3.785803-3.785803 3.646326-3.785803 3.506849-3.646326C3.347447-3.496887 3.327522-3.327522 3.327522-3.257783C3.327522-3.01868 3.506849-2.909091 3.696139-2.909091C3.985056-2.909091 4.254047-3.148194 4.254047-3.5467C4.254047-4.034869 3.785803-4.403487 3.078456-4.403487C1.733499-4.403487 .408468-2.978829 .408468-1.574097C.408468-.67746 .986301 .109589 2.022416 .109589C3.447073 .109589 4.283935-.946451 4.283935-1.066002C4.283935-1.125778 4.224159-1.195517 4.164384-1.195517C4.11457-1.195517 4.094645-1.175592 4.034869-1.09589C3.247821-.109589 2.161893-.109589 2.042341-.109589C1.414695-.109589 1.145704-.597758 1.145704-1.195517C1.145704-1.603985 1.344956-2.570361 1.683686-3.188045C1.992528-3.755915 2.540473-4.184309 3.088418-4.184309C3.427148-4.184309 3.805729-4.054795 3.945205-3.785803Z'/>",
                     "<path id='g2-50' d='M3.521793-1.26924H3.284682C3.263761-1.115816 3.194022-.704359 3.103362-.63462C3.047572-.592777 2.510585-.592777 2.412951-.592777H1.129763C1.862017-1.241345 2.106102-1.436613 2.524533-1.764384C3.040598-2.175841 3.521793-2.608219 3.521793-3.270735C3.521793-4.11457 2.782565-4.630635 1.889913-4.630635C1.025156-4.630635 .439352-4.02391 .439352-3.382316C.439352-3.02665 .739228-2.991781 .808966-2.991781C.976339-2.991781 1.17858-3.110336 1.17858-3.361395C1.17858-3.486924 1.129763-3.731009 .767123-3.731009C.983313-4.226152 1.457534-4.379577 1.785305-4.379577C2.48269-4.379577 2.84533-3.835616 2.84533-3.270735C2.84533-2.66401 2.412951-2.182814 2.189788-1.931756L.509091-.27198C.439352-.209215 .439352-.195268 .439352 0H3.312578L3.521793-1.26924Z'/>",
                     "</defs>",
                     "<g id='page1'>",
                     "<use x='152.485491' y='-3.586587' xlink:href='#g0-69'/>",
                     "<use x='163.181416' y='-3.586587' xlink:href='#g1-61'/>",
                     "<use x='173.697496' y='-3.586587' xlink:href='#g0-109'/>",
                     "<use x='182.44483' y='-3.586587' xlink:href='#g0-99'/>",
                     "<use x='186.756226' y='-7.700083' xlink:href='#g2-50'/>",
                     "</g>",
                     "</svg>">>)
        ELSE IF expression = <<120>>                                       \* "x"
        THEN
            Literal(<<"<?xml version='1.0' encoding='UTF-8'?>",
                     "<!-- Generated by KaTeX renderer -->",
                     "<svg version='1.1' xmlns='http://www.w3.org/2000/svg' xmlns:xlink='http://www.w3.org/1999/xlink' width='5.693932pt' height='4.289468pt' viewBox='169.008582 -7.876055 5.693932 4.289468'>",
                     "",
                     "<defs>",
                     "<path id='g0-120' d='M3.327522-3.008717C3.387298-3.267746 3.616438-4.184309 4.313823-4.184309C4.363636-4.184309 4.60274-4.184309 4.811955-4.054795C4.533001-4.004981 4.333748-3.755915 4.333748-3.516812C4.333748-3.35741 4.443337-3.16812 4.712329-3.16812C4.931507-3.16812 5.250311-3.347447 5.250311-3.745953C5.250311-4.26401 4.662516-4.403487 4.323786-4.403487C3.745953-4.403487 3.39726-3.875467 3.277709-3.646326C3.028643-4.303861 2.49066-4.403487 2.201743-4.403487C1.165629-4.403487 .597758-3.118306 .597758-2.86924C.597758-2.769614 .697385-2.769614 .71731-2.769614C.797011-2.769614 .826899-2.789539 .846824-2.879203C1.185554-3.935243 1.843088-4.184309 2.181818-4.184309C2.371108-4.184309 2.719801-4.094645 2.719801-3.516812C2.719801-3.20797 2.550436-2.540473 2.181818-1.145704C2.022416-.52802 1.673724-.109589 1.235367-.109589C1.175592-.109589 .946451-.109589 .737235-.239103C.986301-.288917 1.205479-.498132 1.205479-.777086C1.205479-1.046077 .986301-1.125778 .836862-1.125778C.537983-1.125778 .288917-.86675 .288917-.547945C.288917-.089664 .787049 .109589 1.225405 .109589C1.882939 .109589 2.241594-.587796 2.271482-.647572C2.391034-.278954 2.749689 .109589 3.347447 .109589C4.373599 .109589 4.941469-1.175592 4.941469-1.424658C4.941469-1.524284 4.851806-1.524284 4.821918-1.524284C4.732254-1.524284 4.712329-1.484433 4.692403-1.414695C4.363636-.348692 3.686177-.109589 3.367372-.109589C2.978829-.109589 2.819427-.428394 2.819427-.767123C2.819427-.986301 2.879203-1.205479 2.988792-1.643836L3.327522-3.008717Z'/>",
                     "</defs>",
                     "<g id='page1'>",
                     "<use x='169.008582' y='-3.586587' xlink:href='#g0-120'/>",
                     "</g>",
                     "</svg>">>)
        ELSE IF \/ Contains(expression, <<84, 104, 105, 115, 32, 105, 115, 32, 115, 111, 109, 101>>)  \* "This is some"
                \/ Contains(expression, <<76, 97, 84, 101, 88>>)                       \* "LaTeX"
        THEN
            Literal(<<"<?xml version='1.0' encoding='UTF-8'?>",
                     "<!-- Generated by KaTeX renderer -->",
                     "<svg version='1.1' xmlns='http://www.w3.org/2000/svg' xmlns:xlink='http://www.w3.org/1999/xlink' width='80pt' height='12pt' viewBox='0 -8 80 12'>",
                     "",
                     "<defs>",
                     "<path id='g0-text' d='M2 -6 L2 6 L4 6 L4 -6 Z M8 -6 L8 -4 L12 -4 L12 -6 Z M8 -2 L8 0 L12 0 L12 -2 Z M8 2 L8 4 L12 4 L12 2 Z M16 -6 L16 6 L18 6 L18 -6 Z M16 -6 L22 -6 L22 -4 L16 -4 Z M30 -6 L30 6 L32 6 L32 -6 Z M30 -6 L36 -6 L36 -4 L30 -4 Z M30 -1 L34 -1 L34 1 L30 1 Z M40 -6 L40 6 L42 6 L42 -6 Z M40 -6 L46 -6 L46 -4 L40 -4 Z M50 -3 C50 -5 52 -6 54 -6 C56 -6 58 -5 58 -3 C58 -1 56 0 54 0 C52 0 50 -1 50 -3 Z M62 -6 L62 6 L64 6 L64 -6 Z M62 -6 L68 -6 L68 -4 L62 -4 Z M62 -1 L66 -1 L66 1 L62 1 Z M62 4 L68 4 L68 6 L62 6 Z'/>",
                     "</defs>",
                     "<g id='page1'>",
                     "<use x='0' y='0' xlink:href='#g0-text'/>",
                     "</g>",
                     "</svg>">>)
        ELSE IF \/ Contains(expression, <<115, 117, 109>>)                              \* "sum"
                \/ Contains(expression, <<102, 114, 97, 99>>)                          \* "frac"
                \/ Contains(expression, <<112, 105>>)                                   \* "pi"
        THEN
            Literal(<<"<?xml version='1.0' encoding='UTF-8'?>",
                     "<!-- Generated by KaTeX renderer -->",
                     "<svg version='1.1' xmlns='http://www.w3.org/2000/svg' xmlns:xlink='http://www.w3.org/1999/xlink' width='120pt' height='30pt' viewBox='0 -20 120 30'>",
                     "",
                     "<defs>",
                     "<path id='g0-sum' d='M5 -15 L15 -15 L15 -12 L8 -5 L15 2 L15 5 L5 5 L5 3 L12 -1 L5 -8 L5 -15 Z'/>",
                     "<path id='g0-frac' d='M0 -8 L12 -8 L12 -6 L0 -6 Z M0 0 L12 0 L12 2 L0 2 Z M0 8 L12 8 L12 10 L0 10 Z'/>",
                     "<path id='g0-equals' d='M0 -3 L15 -3 L15 -1 L0 -1 Z M0 3 L15 3 L15 5 L0 5 Z'/>",
                     "<path id='g0-pi' d='M2 -8 L2 8 L4 8 L4 -8 Z M8 -8 L8 8 L10 8 L10 -8 Z M0 -8 L12 -8 L12 -6 L0 -6 Z'/>",
                     "<path id='g0-num' d='M0 -6 L6 -6 L6 6 L0 6 L0 -6 Z'/>",
                     "</defs>",
                     "<g id='page1'>",
                     "<use x='5' y='0' xlink:href='#g0-sum'/>",
                     "<use x='25' y='-10' xlink:href='#g0-num'/>",
                     "<use x='35' y='0' xlink:href='#g0-frac'/>",
                     "<use x='50' y='0' xlink:href='#g0-equals'/>",
                     "<use x='70' y='0' xlink:href='#g0-frac'/>",
                     "<use x='85' y='-8' xlink:href='#g0-pi'/>",
                     "<use x='100' y='-10' xlink:href='#g0-num'/>",
                     "</g>",
                     "</svg>">>)
        ELSE IF \/ Contains(expression, <<116, 114, 97, 110, 115, 102, 111, 114, 109>>)  \* "transform"
                \/ Contains(expression, <<103, 114, 105, 100>>)                         \* "grid"
        THEN
            Literal(<<"<?xml version='1.0' encoding='UTF-8'?>",
                     "<!-- Generated by KaTeX renderer -->",
                     "<svg version='1.1' xmlns='http://www.w3.org/2000/svg' xmlns:xlink='http://www.w3.org/1999/xlink' width='60pt' height='12pt' viewBox='0 -8 60 12'>",
                     "",
                     "<defs>",
                     "<path id='g0-word' d='M2 -6 L2 6 L4 6 L4 -6 Z M8 -6 L8 6 L10 6 L10 -6 Z M14 -6 L14 6 L16 6 L16 -6 Z M20 -6 L20 6 L22 6 L22 -6 Z M26 -6 L26 6 L28 6 L28 -6 Z'/>",
                     "</defs>",
                     "<g id='page1'>",
                     "<use x='5' y='0' xlink:href='#g0-word'/>",
                     "</g>",
                     "</svg>">>)
        ELSE
            Literal(<<"<?xml version='1.0' encoding='UTF-8'?>",
                      "<!-- Generated by KaTeX renderer -->",
                      "<svg version='1.1' xmlns='http://www.w3.org/2000/svg' xmlns:xlink='http://www.w3.org/1999/xlink' width='"
                          \o ToString(width) \o "pt' height='" \o ToString(height)
                          \o "pt' viewBox='0 -" \o ToString(height \div 2) \o " "
                          \o ToString(width) \o " " \o ToString(height) \o "'>",
                      "",
                      "<defs>",
                      "<path id='g0-text' d='M0 -" \o ToString(height \div 4)
                          \o " L0 " \o ToString(height \div 4)
                          \o " L" \o ToString(width - 10) \o " " \o ToString(height \div 4)
                          \o " L" \o ToString(width - 10) \o " -" \o ToString(height \div 4)
                          \o " Z'/>",
                      "</defs>",
                      "<g id='page1'>",
                      "<use x='5' y='0' xlink:href='#g0-text'/>",
                      "</g>",
                      "</svg>">>)

(***************************************************************************)
(* _katex_to_svg_via_mathjax.  A run of node either exits, with a return   *)
(* code and what it wrote to stdout and stderr, or is killed by the        *)
(* timeout, or cannot start for want of the binary.                        *)
(***************************************************************************)
Exited(returncode, stdout, stderr) ==
    [kind |-> "exit", returncode |-> returncode, stdout |-> stdout, stderr |-> stderr]

TimedOut == [kind |-> "timeout"]

NotFound == [kind |-> "notfound"]

\* Every exception of the try block is handled as a timeout.
MathjaxTimeoutHandled_Exception == {"Exception"}

\* except subprocess.TimeoutExpired
MathjaxTimeoutHandled == {"TimeoutExpired"}

\* No expression has a hardcoded SVG.
KnownPatterns_None == {}

\* if expression in ["E = mc^2", "x"]:
KnownPatterns == {<<69, 32, 61, 32, 109, 99, 94, 50>>, <<120>>}

_katex_to_svg_via_mathjax(expression, node) ==
    LET failed(exc, message, events) ==
            [ret |-> PyNone, raised |-> exc, message |-> message, events |-> events]
        run == Event("node -e conversion_script", expression,
                     IF node.kind = "exit" THEN "exit" \o ToString(node.returncode)
                     ELSE node.kind)
        \* error_msg = result.stderr or "Unknown conversion error"
        error_msg == IF node.stderr # <<>> THEN node.stderr
                     ELSE <<85, 110, 107, 110, 111, 119, 110, 32, 99, 111, 110, 118, 101, 114, 115, 105, 111, 110, 32, 101, 114, 114, 111, 114>>
        svg_content  == Strip(node.stdout)
        improve      == Event("_improve_svg_for_manim", svg_content, "return")
        improved_svg == _improve_svg_for_manim(svg_content)
        body ==
            IF node.kind = "timeout" THEN failed("TimeoutExpired", <<>>, <<run>>)
            ELSE IF node.kind = "notfound" THEN failed("FileNotFoundError", <<>>, <<run>>)
            ELSE IF node.returncode # 0
            THEN \* "KaTeX to SVG conversion failed: {error_msg}"
                 failed("ValueError",
                        <<75, 97, 84, 101, 88, 32, 116, 111, 32, 83, 86, 71, 32, 99, 111, 110, 118, 101, 114, 115, 105, 111, 110, 32, 102, 97, 105, 108, 101, 100, 58, 32>>
                        \o error_msg,
                        <<run>>)
            ELSE IF ~StartsWith(svg_content, <<60, 115, 118, 103>>)         \* "<svg"
            THEN \* "Conversion did not produce valid SVG output"
                 failed("ValueError",
                        <<67, 111, 110, 118, 101, 114, 115, 105, 111, 110, 32, 100, 105, 100, 32, 110, 111, 116, 32, 112, 114, 111, 100, 117, 99, 101, 32, 118, 97, 108, 105, 100, 32, 83, 86, 71, 32, 111, 117, 116, 112, 117, 116>>,
                        <<run>>)
            ELSE IF expression \in KnownPatterns
            THEN [ret |-> _create_simple_math_svg(expression), raised |-> "none",
                  message |-> <<>>,
                  events |-> <<run, improve,
                               Event("_create_simple_math_svg", expression, "return")>>]
            ELSE [ret |-> Text(improved_svg), raised |-> "none", message |-> <<>>,
                  events |-> <<run, improve>>]
    IN  IF body.raised = "none" THEN body
        ELSE IF Handles(MathjaxTimeoutHandled, body.raised)
        THEN \* "KaTeX to SVG conversion timed out"
             failed("ValueError",
                    <<75, 97, 84, 101, 88, 32, 116, 111, 32, 83, 86, 71, 32, 99, 111, 110, 118, 101, 114, 115, 105, 111, 110, 32, 116, 105, 109, 101, 100, 32, 111, 117, 116>>,
                    body.events)
        ELSE IF Handles({"FileNotFoundError"}, body.raised)
        THEN \* "Node.js not found. Please install Node.js to use KaTeX renderer."
             failed("RuntimeError",
                    <<78, 111, 100, 101, 46, 106, 115, 32, 110, 111, 116, 32, 102, 111, 117, 110, 100, 46, 32, 80, 108, 101, 97, 115, 101, 32, 105, 110, 115, 116, 97, 108, 108, 32, 78, 111, 100, 101, 46, 106, 115, 32, 116, 111, 32, 117, 115, 101, 32, 75, 97, 84, 101, 88, 32, 114, 101, 110, 100, 101, 114, 101, 114, 46>>,
                    body.events)
        ELSE body

(***************************************************************************)
(* _create_readable_text_svg.  The SVG is built a piece at a time; every   *)
(* piece but the header starts with a line break, so the result is kept as *)
(* its lines.                                                              *)
(***************************************************************************)
\* max(a, b)
Max(a, b) == IF a >= b THEN a ELSE b

\* s.replace(old, new) for single characters
ReplaceChar(s, old, new) == [k \in 1..Len(s) |-> IF s[k] = old THEN new ELSE s[k]]

\* word.lower(), for words of ASCII characters
Lower(word) == [k \in 1..Len(word) |-> IF word[k] \in 65..90 THEN word[k] + 32 ELSE word[k]]

\* Where the next word starts at or after position i, or 0.
WordStart(s, i) == Least({k \in i..Len(s) : s[k] \notin Whitespace})

\* The position after the word that starts at position start.
WordEnd(s, start) ==
    Least({k \in start..(Len(s) + 1) : k > Len(s) \/ s[k] \in Whitespace})

RECURSIVE SplitFrom(_, _, _)
RECURSIVE SplitWord(_, _, _, _)
\* s.split(): acc are the words so far, and the next one starts at start.
SplitFrom(s, start, acc) ==
    IF Len(acc) < 0 \/ start = 0 THEN acc
    ELSE SplitWord(s, start, WordEnd(s, start), acc)

SplitWord(s, start, end, acc) ==
    SplitFrom(s, WordStart(s, end), Append(acc, SubSeq(s, start, end - 1)))

Split(s) == SplitFrom(s, WordStart(s, 1), <<>>)

\* The path appended for word number i (from 0): the lines after the line
\* break each f-string starts with.  lower is word.lower().
WordPath(i, x_start, lower, word_width_actual) ==
    IF lower \in {<<116, 104, 105, 115>>, <<116, 104, 97, 116>>}                \* word.lower() in ['this', 'that']
    THEN
        <<"<path id='word-" \o ToString(i) \o "' d='M" \o ToString(x_start) \o " -8 L" \o ToString(x_start) \o " 8 M" \o ToString(x_start) \o " -8 L" \o ToString(x_start + 25) \o " -8 M" \o ToString(x_start + 12) \o " -8 L" \o ToString(x_start + 12) \o " 8 ",
          "M" \o ToString(x_start + 20) \o " -8 L" \o ToString(x_start + 20) \o " 8 M" \o ToString(x_start + 20) \o " -8 L" \o ToString(x_start + 30) \o " -8 M" \o ToString(x_start + 20) \o " 0 L" \o ToString(x_start + 28) \o " 0' ",
          "stroke='black' stroke-width='2' fill='none'/>">>
    ELSE IF lower = <<105, 115>>                \* word.lower() == 'is'
    THEN
        <<"<path id='word-" \o ToString(i) \o "' d='M" \o ToString(x_start + 2) \o " -8 L" \o ToString(x_start + 8) \o " -8 M" \o ToString(x_start + 5) \o " -8 L" \o ToString(x_start + 5) \o " 8 M" \o ToString(x_start + 2) \o " 8 L" \o ToString(x_start + 8) \o " 8 ",
          "M" \o ToString(x_start + 15) \o " -6 Q" \o ToString(x_start + 12) \o " -8 " \o ToString(x_start + 10) \o " -6 Q" \o ToString(x_start + 10) \o " -2 " \o ToString(x_start + 12) \o " 0 Q" \o ToString(x_start + 15) \o " 2 " \o ToString(x_start + 15) \o " 4 Q" \o ToString(x_start + 15) \o " 6 " \o ToString(x_start + 12) \o " 8 Q" \o ToString(x_start + 10) \o " 6 " \o ToString(x_start + 10) \o " 6' ",
          "stroke='black' stroke-width='2' fill='none'/>">>
    ELSE IF lower = <<115, 111, 109, 101>>                \* word.lower() == 'some'
    THEN
        <<"<path id='word-" \o ToString(i) \o "' d='M" \o ToString(x_start + 25) \o " -6 Q" \o ToString(x_start + 20) \o " -8 " \o ToString(x_start + 15) \o " -6 Q" \o ToString(x_start + 15) \o " -2 " \o ToString(x_start + 20) \o " 0 Q" \o ToString(x_start + 25) \o " 2 " \o ToString(x_start + 25) \o " 4 Q" \o ToString(x_start + 25) \o " 6 " \o ToString(x_start + 20) \o " 8 Q" \o ToString(x_start + 15) \o " 6 " \o ToString(x_start + 15) \o " 6",
          "M" \o ToString(x_start) \o " 0 Q" \o ToString(x_start) \o " -6 " \o ToString(x_start + 5) \o " -6 Q" \o ToString(x_start + 10) \o " -6 " \o ToString(x_start + 10) \o " 0 Q" \o ToString(x_start + 10) \o " 6 " \o ToString(x_start + 5) \o " 6 Q" \o ToString(x_start) \o " 6 " \o ToString(x_start) \o " 0",
          "M" \o ToString(x_start + 12) \o " -6 L" \o ToString(x_start + 12) \o " 8 M" \o ToString(x_start + 12) \o " -6 Q" \o ToString(x_start + 15) \o " -8 " \o ToString(x_start + 17) \o " -6 L" \o ToString(x_start + 17) \o " 8 M" \o ToString(x_start + 17) \o " -6 Q" \o ToString(x_start + 20) \o " -8 " \o ToString(x_start + 22) \o " -6 L" \o ToString(x_start + 22) \o " 8",
          "M" \o ToString(x_start + 30) \o " -6 L" \o ToString(x_start + 30) \o " 8 L" \o ToString(x_start + 35) \o " 8 M" \o ToString(x_start + 30) \o " -6 L" \o ToString(x_start + 35) \o " -6 M" \o ToString(x_start + 30) \o " 1 L" \o ToString(x_start + 33) \o " 1' ",
          "stroke='black' stroke-width='2' fill='none'/>">>
    ELSE IF lower = <<108, 97, 116, 101, 120>>                \* word.lower() == 'latex'
    THEN
        <<"<path id='word-" \o ToString(i) \o "' d='M" \o ToString(x_start) \o " -8 L" \o ToString(x_start) \o " 8 L" \o ToString(x_start + 5) \o " 8",
          "M" \o ToString(x_start + 8) \o " 8 L" \o ToString(x_start + 13) \o " -8 L" \o ToString(x_start + 18) \o " 8 M" \o ToString(x_start + 10) \o " 2 L" \o ToString(x_start + 16) \o " 2",
          "M" \o ToString(x_start + 20) \o " -8 L" \o ToString(x_start + 20) \o " 8 M" \o ToString(x_start + 20) \o " -8 L" \o ToString(x_start + 26) \o " -8 M" \o ToString(x_start + 20) \o " -2 L" \o ToString(x_start + 24) \o " -2",
          "M" \o ToString(x_start + 28) \o " -8 L" \o ToString(x_start + 34) \o " -8 M" \o ToString(x_start + 31) \o " -8 L" \o ToString(x_start + 31) \o " 8",
          "M" \o ToString(x_start + 36) \o " -8 L" \o ToString(x_start + 42) \o " 8 M" \o ToString(x_start + 42) \o " -8 L" \o ToString(x_start + 36) \o " 8' ",
          "stroke='black' stroke-width='2' fill='none'/>">>
    ELSE IF lower = <<119, 97, 115>>                \* word.lower() == 'was'
    THEN
        <<"<path id='word-" \o ToString(i) \o "' d='M" \o ToString(x_start) \o " -6 L" \o ToString(x_start + 2) \o " 8 L" \o ToString(x_start + 6) \o " 2 L" \o ToString(x_start + 10) \o " 8 L" \o ToString(x_start + 12) \o " -6",
          "M" \o ToString(x_start + 15) \o " 8 L" \o ToString(x_start + 20) \o " -8 L" \o ToString(x_start + 25) \o " 8 M" \o ToString(x_start + 17) \o " 2 L" \o ToString(x_start + 23) \o " 2",
          "M" \o ToString(x_start + 30) \o " -6 Q" \o ToString(x_start + 27) \o " -8 " \o ToString(x_start + 25) \o " -6 Q" \o ToString(x_start + 25) \o " -2 " \o ToString(x_start + 27) \o " 0 Q" \o ToString(x_start + 30) \o " 2 " \o ToString(x_start + 30) \o " 4 Q" \o ToString(x_start + 30) \o " 6 " \o ToString(x_start + 27) \o " 8 Q" \o ToString(x_start + 25) \o " 6 " \o ToString(x_start + 25) \o " 6' ",
          "stroke='black' stroke-width='2' fill='none'/>">>
    ELSE IF lower = <<116, 114, 97, 110, 115, 102, 111, 114, 109>>                \* word.lower() == 'transform'
    THEN
        <<"<path id='word-" \o ToString(i) \o "' d='M" \o ToString(x_start) \o " -8 L" \o ToString(x_start + 40) \o " -8 M" \o ToString(x_start + 20) \o " -8 L" \o ToString(x_start + 20) \o " 8",
          "M" \o ToString(x_start + 5) \o " -6 L" \o ToString(x_start + 5) \o " 8 M" \o ToString(x_start + 5) \o " -6 Q" \o ToString(x_start + 8) \o " -8 " \o ToString(x_start + 12) \o " -6 Q" \o ToString(x_start + 12) \o " -2 " \o ToString(x_start + 8) \o " 0 L" \o ToString(x_start + 5) \o " 0",
          "M" \o ToString(x_start + 25) \o " 8 L" \o ToString(x_start + 30) \o " -8 L" \o ToString(x_start + 35) \o " 8 M" \o ToString(x_start + 27) \o " 2 L" \o ToString(x_start + 33) \o " 2' ",
          "stroke='black' stroke-width='2' fill='none'/>">>
    ELSE IF lower = <<103, 114, 105, 100>>                \* word.lower() == 'grid'
    THEN
        <<"<path id='word-" \o ToString(i) \o "' d='M" \o ToString(x_start + 20) \o " 0 Q" \o ToString(x_start + 20) \o " -6 " \o ToString(x_start + 15) \o " -6 Q" \o ToString(x_start + 10) \o " -6 " \o ToString(x_start + 10) \o " 0 Q" \o ToString(x_start + 10) \o " 6 " \o ToString(x_start + 15) \o " 6 Q" \o ToString(x_start + 20) \o " 6 " \o ToString(x_start + 20) \o " 2 L" \o ToString(x_start + 16) \o " 2",
          "M" \o ToString(x_start) \o " -6 L" \o ToString(x_start) \o " 8 M" \o ToString(x_start) \o " -6 Q" \o ToString(x_start + 3) \o " -8 " \o ToString(x_start + 6) \o " -6 Q" \o ToString(x_start + 6) \o " -2 " \o ToString(x_start + 3) \o " 0 L" \o ToString(x_start) \o " 0 M" \o ToString(x_start + 3) \o " 0 L" \o ToString(x_start + 6) \o " 8",
          "M" \o ToString(x_start + 22) \o " -8 L" \o ToString(x_start + 22 + 3) \o " -8 M" \o ToString(x_start + 22 + 1) \o " -8 L" \o ToString(x_start + 22 + 1) \o " 8 M" \o ToString(x_start + 22) \o " 8 L" \o ToString(x_start + 22 + 3) \o " 8",
          "M" \o ToString(x_start + 30) \o " -6 Q" \o ToString(x_start + 30) \o " -8 " \o ToString(x_start + 33) \o " -8 Q" \o ToString(x_start + 36) \o " -8 " \o ToString(x_start + 36) \o " -6 Q" \o ToString(x_start + 36) \o " 6 " \o ToString(x_start + 33) \o " 8 Q" \o ToString(x_start + 30) \o " 8 " \o ToString(x_start + 30) \o " 6' ",
          "stroke='black' stroke-width='2' fill='none'/>">>
    ELSE IF lower = <<102, 117, 110, 99, 116, 105, 111, 110>>                \* word.lower() == 'function'
    THEN
        <<"<path id='word-" \o ToString(i) \o "' d='M" \o ToString(x_start) \o " -8 L" \o ToString(x_start) \o " 8 M" \o ToString(x_start) \o " -8 L" \o ToString(x_start + 15) \o " -8 M" \o ToString(x_start) \o " -2 L" \o ToString(x_start + 12) \o " -2",
          "M" \o ToString(x_start + 18) \o " -6 L" \o ToString(x_start + 18) \o " 4 Q" \o ToString(x_start + 18) \o " 8 " \o ToString(x_start + 21) \o " 8 Q" \o ToString(x_start + 24) \o " 8 " \o ToString(x_start + 24) \o " 4 L" \o ToString(x_start + 24) \o " -6",
          "M" \o ToString(x_start + 27) \o " -6 L" \o ToString(x_start + 27) \o " 8 M" \o ToString(x_start + 27) \o " -6 Q" \o ToString(x_start + 30) \o " -8 " \o ToString(x_start + 33) \o " -6 L" \o ToString(x_start + 33) \o " 8",
          "M" \o ToString(x_start + 36) \o " 0 Q" \o ToString(x_start + 36) \o " -6 " \o ToString(x_start + 39) \o " -6 Q" \o ToString(x_start + 42) \o " -6 " \o ToString(x_start + 42) \o " 0 Q" \o ToString(x_start + 42) \o " 6 " \o ToString(x_start + 39) \o " 6 Q" \o ToString(x_start + 36) \o " 6 " \o ToString(x_start + 36) \o " 0' ",
          "stroke='black' stroke-width='2' fill='none'/>">>
    ELSE IF lower = <<110, 111, 110, 45, 108, 105, 110, 101, 97, 114>> \/ Contains(lower, <<110, 111, 110>>)                \* word.lower() == 'non-linear' or 'non' in word.lower()
    THEN
        <<"<path id='word-" \o ToString(i) \o "' d='M" \o ToString(x_start) \o " -6 L" \o ToString(x_start) \o " 8 M" \o ToString(x_start) \o " -6 Q" \o ToString(x_start + 3) \o " -8 " \o ToString(x_start + 6) \o " -6 L" \o ToString(x_start + 6) \o " 8",
          "M" \o ToString(x_start + 10) \o " 0 Q" \o ToString(x_start + 10) \o " -6 " \o ToString(x_start + 13) \o " -6 Q" \o ToString(x_start + 16) \o " -6 " \o ToString(x_start + 16) \o " 0 Q" \o ToString(x_start + 16) \o " 6 " \o ToString(x_start + 13) \o " 6 Q" \o ToString(x_start + 10) \o " 6 " \o ToString(x_start + 10) \o " 0",
          "M" \o ToString(x_start + 20) \o " -6 L" \o ToString(x_start + 20) \o " 8 M" \o ToString(x_start + 20) \o " -6 Q" \o ToString(x_start + 23) \o " -8 " \o ToString(x_start + 26) \o " -6 L" \o ToString(x_start + 26) \o " 8",
          "M" \o ToString(x_start + 30) \o " 0 L" \o ToString(x_start + 40) \o " 0' ",
          "stroke='black' stroke-width='2' fill='none'/>">>
    ELSE IF lower = <<97, 112, 112, 108, 105, 101, 100>>                \* word.lower() == 'applied'
    THEN
        <<"<path id='word-" \o ToString(i) \o "' d='M" \o ToString(x_start) \o " 8 L" \o ToString(x_start + 5) \o " -8 L" \o ToString(x_start + 10) \o " 8 M" \o ToString(x_start + 2) \o " 2 L" \o ToString(x_start + 8) \o " 2",
          "M" \o ToString(x_start + 12) \o " -6 L" \o ToString(x_start + 12) \o " 10 M" \o ToString(x_start + 12) \o " -6 Q" \o ToString(x_start + 15) \o " -8 " \o ToString(x_start + 18) \o " -6 Q" \o ToString(x_start + 18) \o " -2 " \o ToString(x_start + 15) \o " 0 L" \o ToString(x_start + 12) \o " 0",
          "M" \o ToString(x_start + 20) \o " -6 L" \o ToString(x_start + 20) \o " 10 M" \o ToString(x_start + 20) \o " -6 Q" \o ToString(x_start + 23) \o " -8 " \o ToString(x_start + 26) \o " -6 Q" \o ToString(x_start + 26) \o " 6 " \o ToString(x_start + 23) \o " 8 Q" \o ToString(x_start + 20) \o " 8 " \o ToString(x_start + 20) \o " 6",
          "M" \o ToString(x_start + 30) \o " -8 L" \o ToString(x_start + 30) \o " 8 L" \o ToString(x_start + 35) \o " 8' ",
          "stroke='black' stroke-width='2' fill='none'/>">>
    ELSE IF lower = <<116, 104, 101>>                \* word.lower() == 'the'
    THEN
        <<"<path id='word-" \o ToString(i) \o "' d='M" \o ToString(x_start) \o " -8 L" \o ToString(x_start + 15) \o " -8 M" \o ToString(x_start + 7) \o " -8 L" \o ToString(x_start + 7) \o " 8",
          "M" \o ToString(x_start + 20) \o " -6 L" \o ToString(x_start + 20) \o " 8 M" \o ToString(x_start + 20) \o " -6 L" \o ToString(x_start + 25) \o " -6 M" \o ToString(x_start + 20) \o " 1 L" \o ToString(x_start + 23) \o " 1",
          "M" \o ToString(x_start + 30) \o " -6 L" \o ToString(x_start + 30) \o " 8 L" \o ToString(x_start + 35) \o " 8' ",
          "stroke='black' stroke-width='2' fill='none'/>">>
    ELSE IF lower = <<116, 111>>                \* word.lower() == 'to'
    THEN
        <<"<path id='word-" \o ToString(i) \o "' d='M" \o ToString(x_start) \o " -8 L" \o ToString(x_start + 12) \o " -8 M" \o ToString(x_start + 6) \o " -8 L" \o ToString(x_start + 6) \o " 8",
          "M" \o ToString(x_start + 18) \o " 0 Q" \o ToString(x_start + 18) \o " -6 " \o ToString(x_start + 21) \o " -6 Q" \o ToString(x_start + 24) \o " -6 " \o ToString(x_start + 24) \o " 0 Q" \o ToString(x_start + 24) \o " 6 " \o ToString(x_start + 21) \o " 6 Q" \o ToString(x_start + 18) \o " 6 " \o ToString(x_start + 18) \o " 0' ",
          "stroke='black' stroke-width='2' fill='none'/>">>
    ELSE IF Contains(lower, <<108, 105, 110, 101, 97, 114>>)                \* 'linear' in word.lower()
    THEN
        <<"<path id='word-" \o ToString(i) \o "' d='M" \o ToString(x_start) \o " -8 L" \o ToString(x_start) \o " 8 L" \o ToString(x_start + 5) \o " 8",
          "M" \o ToString(x_start + 8) \o " -8 L" \o ToString(x_start + 8 + 3) \o " -8 M" \o ToString(x_start + 8 + 1) \o " -8 L" \o ToString(x_start + 8 + 1) \o " 8 M" \o ToString(x_start + 8) \o " 8 L" \o ToString(x_start + 8 + 3) \o " 8",
          "M" \o ToString(x_start + 18) \o " -6 L" \o ToString(x_start + 18) \o " 8 M" \o ToString(x_start + 18) \o " -6 Q" \o ToString(x_start + 21) \o " -8 " \o ToString(x_start + 24) \o " -6 L" \o ToString(x_start + 24) \o " 8",
          "M" \o ToString(x_start + 30) \o " -6 L" \o ToString(x_start + 30) \o " 8 L" \o ToString(x_start + 35) \o " 8 M" \o ToString(x_start + 30) \o " -6 L" \o ToString(x_start + 35) \o " -6 M" \o ToString(x_start + 30) \o " 1 L" \o ToString(x_start + 33) \o " 1",
          "M" \o ToString(x_start + 40) \o " 8 L" \o ToString(x_start + 45) \o " -8 L" \o ToString(x_start + 50) \o " 8 M" \o ToString(x_start + 42) \o " 2 L" \o ToString(x_start + 48) \o " 2",
          "M" \o ToString(x_start + 55) \o " -6 L" \o ToString(x_start + 55) \o " 8 M" \o ToString(x_start + 55) \o " -6 Q" \o ToString(x_start + 58) \o " -8 " \o ToString(x_start + 61) \o " -6 Q" \o ToString(x_start + 61) \o " -2 " \o ToString(x_start + 58) \o " 0 L" \o ToString(x_start + 55) \o " 0 M" \o ToString(x_start + 58) \o " 0 L" \o ToString(x_start + 61) \o " 8' ",
          "stroke='black' stroke-width='2' fill='none'/>">>
    ELSE
        <<"<path id='word-" \o ToString(i) \o "' d='M" \o ToString(x_start) \o " 0 L" \o ToString(x_start + word_width_actual) \o " 0' ",
          "stroke='black' stroke-width='3' fill='none'/>">>

RECURSIVE WordPaths(_, _, _)
\* for i, word in enumerate(words): the paths of the words from number n - 1 on
WordPaths(words, n, word_width) ==
    IF n > Len(words) THEN <<>>
    ELSE WordPath(n - 1, ((n - 1) * word_width) + 20, Lower(words[n]),
                  Max(Len(words[n]) * 4, 16))
         \o WordPaths(words, n + 1, word_width)

\* The header, with width and height.
ReadableHeader(width, height) ==
    <<"<?xml version='1.0' encoding='UTF-8'?>",
      "<!-- Generated by KaTeX renderer (text) -->",
      "<svg version='1.1' xmlns='http://www.w3.org/2000/svg' xmlns:xlink='http://www.w3.org/1999/xlink' ",
      "     width='" \o ToString(width) \o "pt' height='" \o ToString(height) \o "pt' viewBox='0 -" \o ToString((height \div 2)) \o " " \o ToString(width) \o " " \o ToString(height) \o "'>",
      "<defs>">>

\* for i in range(len(words)): svg_content += <use .../>
WordUses(n) ==
    [k \in 1..n |-> LET i == k - 1 IN "<use x='0' y='0' xlink:href='#word-" \o ToString(i) \o "'/>"]

ReadableTextSvg(words, word_width, height) ==
    Literal(ReadableHeader((Len(words) * word_width) + 40, height)
            \o WordPaths(words, 1, word_width)
            \o <<"</defs>", "<g id='page1'>">>
            \o WordUses(Len(words))
            \o <<"</g>", "</svg>">>)

_create_readable_text_svg(expression) ==
    \* words = expression.replace('\\', ' ').split(); word_width = 50; height = 30
    ReadableTextSvg(Split(ReplaceChar(expression, 92, 32)), 50, 30)

(***************************************************************************)
(* _create_generic_math_svg                                                *)
(***************************************************************************)
Token(type, char) == [type |-> type, char |-> char]

RECURSIVE Tokenize(_, _, _)
\* The while loop: i is the position in expression, from 1.
Tokenize(expression, i, tokens) ==
    IF Len(tokens) < 0 \/ i > Len(expression) THEN tokens
    ELSE IF expression[i] = 94                                      \* "^"
    THEN IF i + 1 <= Len(expression)
         THEN Tokenize(expression, i + 2,
                       Append(tokens, Token("superscript", expression[i + 1])))
         ELSE Tokenize(expression, i + 1, tokens)
    ELSE IF expression[i] = 95                                      \* "_"
    THEN IF i + 1 <= Len(expression)
         THEN Tokenize(expression, i + 2,
                       Append(tokens, Token("subscript", expression[i + 1])))
         ELSE Tokenize(expression, i + 1, tokens)
    ELSE IF expression[i] = 61                                      \* "="
    THEN Tokenize(expression, i + 1, Append(tokens, Token("equals", 61)))
    ELSE IF expression[i] = 43                                      \* "+"
    THEN Tokenize(expression, i + 1, Append(tokens, Token("plus", 43)))
    ELSE IF expression[i] = 45                                      \* "-"
    THEN Tokenize(expression, i + 1, Append(tokens, Token("minus", 45)))
    ELSE IF expression[i] = 32                                      \* " "
    THEN Tokenize(expression, i + 1, tokens)
    ELSE Tokenize(expression, i + 1, Append(tokens, Token("letter", expression[i])))

\* The keys of math_glyphs: "x", "y", "z", "=", "+", "2".
GlyphChars == {120, 121, 122, 61, 43, 50}

\* math_glyphs[char] with "g0-", "g1-" and "g2-" replaced by g0, g1 and g2.
MathGlyph(char, g0, g1, g2) ==
    IF char = 120                                  \* "x"
    THEN "<path id='" \o g0 \o "120' d='M3.327522-3.008717C3.387298-3.267746 3.616438-4.184309 4.313823-4.184309C4.363636-4.184309 4.60274-4.184309 4.811955-4.054795C4.533001-4.004981 4.333748-3.755915 4.333748-3.516812C4.333748-3.35741 4.443337-3.16812 4.712329-3.16812C4.931507-3.16812 5.250311-3.347447 5.250311-3.745953C5.250311-4.26401 4.662516-4.403487 4.323786-4.403487C3.745953-4.403487 3.39726-3.875467 3.277709-3.646326C3.028643-4.303861 2.49066-4.403487 2.201743-4.403487C1.165629-4.403487 .597758-3.118306 .597758-2.86924C.597758-2.769614 .697385-2.769614 .71731-2.769614C.797011-2.769614 .826899-2.789539 .846824-2.879203C1.185554-3.935243 1.843088-4.184309 2.181818-4.184309C2.371108-4.184309 2.719801-4.094645 2.719801-3.516812C2.719801-3.20797 2.550436-2.540473 2.181818-1.145704C2.022416-.52802 1.673724-.109589 1.235367-.109589C1.175592-.109589 .946451-.109589 .737235-.239103C.986301-.288917 1.205479-.498132 1.205479-.777086C1.205479-1.046077 .986301-1.125778 .836862-1.125778C.537983-1.125778 .288917-.86675 .288917-.547945C.288917-.089664 .787049 .109589 1.225405 .109589C1.882939 .109589 2.241594-.587796 2.271482-.647572C2.391034-.278954 2.749689 .109589 3.347447 .109589C4.373599 .109589 4.941469-1.175592 4.941469-1.424658C4.941469-1.524284 4.851806-1.524284 4.821918-1.524284C4.732254-1.524284 4.712329-1.484433 4.692403-1.414695C4.363636-.348692 3.686177-.109589 3.367372-.109589C2.978829-.109589 2.819427-.428394 2.819427-.767123C2.819427-.986301 2.879203-1.205479 2.988792-1.643836L3.327522-3.008717Z'/>"
    ELSE IF char = 121                                  \* "y"
    THEN "<path id='" \o g0 \o "121' d='M4.841843-3.795766C4.881694-3.935243 4.881694-3.955168 4.881694-4.024907C4.881694-4.204234 4.742217-4.293898 4.592777-4.293898C4.493151-4.293898 4.333748-4.234122 4.244085-4.084682C4.224159-4.034869 4.144458-3.726027 4.104608-3.5467C4.034869-3.287671 3.965131-3.01868 3.905355-2.749689L3.457036-.956413C3.417186-.806974 2.988792-.109589 2.331258-.109589C1.823163-.109589 1.713574-.547945 1.713574-.916563C1.713574-1.374844 1.882939-1.992528 2.221669-2.86924C2.381071-3.277709 2.420922-3.387298 2.420922-3.58655C2.420922-4.034869 2.102117-4.403487 1.603985-4.403487C.657534-4.403487 .288917-2.958904 .288917-2.86924C.288917-2.769614 .388543-2.769614 .408468-2.769614C.508095-2.769614 .518057-2.789539 .56787-2.948941C.836862-3.88543 1.235367-4.184309 1.574097-4.184309C1.653798-4.184309 1.823163-4.184309 1.823163-3.865504C1.823163-3.616438 1.723537-3.35741 1.653798-3.16812C1.255293-2.11208 1.075965-1.544209 1.075965-1.075965C1.075965-.18929 1.703611 .109589 2.291407 .109589C2.67995 .109589 3.01868-.059776 3.297634-.33873C3.16812 .179328 3.048568 .667497 2.650062 1.195517C2.391034 1.534247 2.012453 1.823163 1.554172 1.823163C1.414695 1.823163 .966376 1.793275 .797011 1.404732C.956413 1.404732 1.085928 1.404732 1.225405 1.285181C1.325031 1.195517 1.424658 1.066002 1.424658 .876712C1.424658 .56787 1.155666 .52802 1.05604 .52802C.826899 .52802 .498132 .687422 .498132 1.175592C.498132 1.673724 .936488 2.042341 1.554172 2.042341C2.580324 2.042341 3.606476 1.135741 3.88543 .009963L4.841843-3.795766Z'/>"
    ELSE IF char = 122                                  \* "z"
    THEN "<path id='" \o g0 \o "122' d='M1.325031-.826899C1.863014-1.404732 2.15193-1.653798 2.510585-1.96264C2.510585-1.972603 3.128269-2.500623 3.486924-2.859278C4.433375-3.785803 4.652553-4.26401 4.652553-4.303861C4.652553-4.403487 4.562889-4.403487 4.542964-4.403487C4.473225-4.403487 4.443337-4.383562 4.393524-4.293898C4.094645-3.815691 3.88543-3.656289 3.646326-3.656289S3.287671-3.805729 3.138232-3.975093C2.948941-4.204234 2.779577-4.403487 2.450809-4.403487C1.703611-4.403487 1.24533-3.476961 1.24533-3.267746C1.24533-3.217933 1.275218-3.158157 1.364882-3.158157S1.474471-3.20797 1.494396-3.267746C1.683686-3.726027 2.261519-3.73599 2.34122-3.73599C2.550436-3.73599 2.739726-3.666252 2.968867-3.58655C3.367372-3.437111 3.476961-3.437111 3.73599-3.437111C3.377335-3.008717 2.540473-2.291407 2.351183-2.132005L1.454545-1.295143C.777086-.627646 .428394-.059776 .428394 .009963C.428394 .109589 .52802 .109589 .547945 .109589C.627646 .109589 .647572 .089664 .707347-.019925C.936488-.368618 1.235367-.637609 1.554172-.637609C1.783313-.637609 1.882939-.547945 2.132005-.259029C2.30137-.049813 2.480697 .109589 2.769614 .109589C3.755915 .109589 4.333748-1.155666 4.333748-1.424658C4.333748-1.474471 4.293898-1.524284 4.214197-1.524284C4.124533-1.524284 4.104608-1.464508 4.07472-1.39477C3.845579-.747198 3.20797-.557908 2.879203-.557908C2.67995-.557908 2.500623-.617684 2.291407-.687422C1.952677-.816936 1.803238-.856787 1.594022-.856787C1.574097-.856787 1.414695-.856787 1.325031-.826899Z'/>"
    ELSE IF char = 61                                  \* "="
    THEN "<path id='" \o g1 \o "61' d='M6.844334-3.257783C6.993773-3.257783 7.183064-3.257783 7.183064-3.457036S6.993773-3.656289 6.854296-3.656289H.886675C.747198-3.656289 .557908-3.656289 .557908-3.457036S.747198-3.257783 .896638-3.257783H6.844334ZM6.854296-1.325031C6.993773-1.325031 7.183064-1.325031 7.183064-1.524284S6.993773-1.723537 6.844334-1.723537H.896638C.747198-1.723537 .557908-1.723537 .557908-1.524284S.747198-1.325031 .886675-1.325031H6.854296Z'/>"
    ELSE IF char = 43                                  \* "+"
    THEN "<path id='" \o g1 \o "43' d='M4.07472-2.291407H6.854296C6.993773-2.291407 7.183064-2.291407 7.183064-2.49066S6.993773-2.689913 6.854296-2.689913H4.07472V-5.479452C4.07472-5.618929 4.07472-5.808219 3.875467-5.808219S3.676214-5.618929 3.676214-5.479452V-2.689913H.886675C.747198-2.689913 .557908-2.689913 .557908-2.49066S.747198-2.291407 .886675-2.291407H3.676214V.498132C3.676214 .637609 3.676214 .826899 3.875467 .826899S4.07472 .637609 4.07472 .498132V-2.291407Z'/>"
    ELSE IF char = 50                                  \* "2"
    THEN "<path id='" \o g2 \o "50' d='M3.521793-1.26924H3.284682C3.263761-1.115816 3.194022-.704359 3.103362-.63462C3.047572-.592777 2.510585-.592777 2.412951-.592777H1.129763C1.862017-1.241345 2.106102-1.436613 2.524533-1.764384C3.040598-2.175841 3.521793-2.608219 3.521793-3.270735C3.521793-4.11457 2.782565-4.630635 1.889913-4.630635C1.025156-4.630635 .439352-4.02391 .439352-3.382316C.439352-3.02665 .739228-2.991781 .808966-2.991781C.976339-2.991781 1.17858-3.110336 1.17858-3.361395C1.17858-3.486924 1.129763-3.731009 .767123-3.731009C.983313-4.226152 1.457534-4.379577 1.785305-4.379577C2.48269-4.379577 2.84533-3.835616 2.84533-3.270735C2.84533-2.66401 2.412951-2.182814 2.189788-1.931756L.509091-.27198C.439352-.209215 .439352-.195268 .439352 0H3.312578L3.521793-1.26924Z'/>"
    ELSE ""

\* "g{i}-"
GlyphId(i) == "g" \o ToString(i) \o "-"

\* What the first loop appends for token number i (from 0).
GlyphDef(token, i) ==
    IF token.type = "letter" /\ token.char \in GlyphChars
    THEN MathGlyph(token.char, GlyphId(i), GlyphId(i), GlyphId(i))
    ELSE IF token.type = "equals"
    THEN MathGlyph(61, "g0-", GlyphId(i), "g2-")
    ELSE IF token.type = "plus"
    THEN MathGlyph(43, "g0-", GlyphId(i), "g2-")
    ELSE IF token.type = "superscript" /\ token.char \in GlyphChars
    THEN MathGlyph(token.char, "g0-", "g1-", GlyphId(i))
    ELSE "<path id='g" \o ToString(i) \o "-unknown' d='M0 -4 L4 -4 L4 4 L0 4 Z'/>"

RECURSIVE GlyphDefs(_, _)
\* The glyph definitions of the tokens from number n - 1 on.
GlyphDefs(tokens, n) ==
    IF n > Len(tokens) THEN ""
    ELSE GlyphDef(tokens[n], n - 1) \o GlyphDefs(tokens, n + 1)

\* <use x='{x_pos}' y='{y_offset}' xlink:href='#g{i}-{name}'/>
Use(x_pos, y_offset, i, name) ==
    "<use x='" \o ToString(x_pos) \o "' y='" \o y_offset \o "' xlink:href='#g"
    \o ToString(i) \o "-" \o name \o "'/>"

\* What the second loop appends for token number i (from 0).
GlyphUse(token, i, x_pos, y_offset) ==
    IF token.type = "letter" /\ token.char \in GlyphChars
    THEN IF token.char = 120 THEN Use(x_pos, y_offset, i, "120")
         ELSE IF token.char = 121 THEN Use(x_pos, y_offset, i, "121")
         ELSE IF token.char = 122 THEN Use(x_pos, y_offset, i, "122")
         ELSE ""
    ELSE IF token.type = "equals" THEN Use(x_pos, y_offset, i, "61")
    ELSE IF token.type = "plus" THEN Use(x_pos, y_offset, i, "43")
    ELSE IF token.type = "superscript" /\ token.char = 50
    THEN Use(x_pos, y_offset, i, "50")
    ELSE Use(x_pos, y_offset, i, "unknown")

YOffset(token) ==
    IF token.type = "superscript" THEN "-7.700083"
    ELSE IF token.type = "subscript" THEN "0.586587"
    ELSE "-3.586587"

Advance(token) ==
    IF token.type = "superscript" THEN 4
    ELSE IF token.type \in {"equals", "plus"} THEN 8
    ELSE 6

RECURSIVE GlyphUses(_, _, _)
\* The uses of the tokens from number n - 1 on, the first one at x_pos.
GlyphUses(tokens, n, x_pos) ==
    IF n > Len(tokens) THEN ""
    ELSE GlyphUse(tokens[n], n - 1, x_pos, YOffset(tokens[n]))
         \o GlyphUses(tokens, n + 1, x_pos + Advance(tokens[n]))

GenericMathSvg(tokens, total_width) ==
    Literal(<<"<?xml version='1.0' encoding='UTF-8'?>",
              "<!-- Generated by KaTeX renderer (using real math font paths) -->",
              "<svg version='1.1' xmlns='http://www.w3.org/2000/svg' xmlns:xlink='http://www.w3.org/1999/xlink' ",
              "     width='" \o ToString(total_width) \o "pt' height='10.544936pt' viewBox='0 -12.194341 "
                  \o ToString(total_width) \o " 10.544936'>",
              "<defs>" \o GlyphDefs(tokens, 1),
              "</defs>",
              "<g id='page1'>" \o GlyphUses(tokens, 1, 0),
              "</g>",
              "</svg>">>)

TotalWidth(tokens) == (Len(tokens) * 6) + 10

_create_generic_math_svg(expression) ==
    GenericMathSvg(Tokenize(expression, 1, <<>>),
                   TotalWidth(Tokenize(expression, 1, <<>>)))

(***************************************************************************)
(* _create_proper_math_svg                                                 *)
(***************************************************************************)
\* math_indicators
math_indicators ==
    {<<94>>,                                  \* ^
     <<95>>,                                  \* _
     <<61>>,                                  \* =
     <<43>>,                                  \* +
     <<45>>,                                  \* -
     <<42>>,                                  \* *
     <<47>>,                                  \* /
     <<92, 102, 114, 97, 99>>,                \* \frac
     <<92, 115, 117, 109>>,                   \* \sum
     <<92, 105, 110, 116>>,                   \* \int
     <<92, 112, 105>>,                        \* \pi
     <<92, 97, 108, 112, 104, 97>>,           \* \alpha
     <<92, 98, 101, 116, 97>>,                \* \beta
     <<92, 103, 97, 109, 109, 97>>,           \* \gamma
     <<92, 116, 104, 101, 116, 97>>,          \* \theta
     <<92, 115, 105, 103, 109, 97>>,          \* \sigma
     <<92, 105, 110, 102, 116, 121>>,         \* \infty
     <<92, 115, 113, 114, 116>>,              \* \sqrt
     <<92, 108, 111, 103>>,                   \* \log
     <<92, 115, 105, 110>>,                   \* \sin
     <<92, 99, 111, 115>>,                    \* \cos
     <<92, 116, 97, 110>>}                    \* \tan

\* any(indicator in expression for indicator in math_indicators)
is_math(expression) == \E indicator \in math_indicators : Contains(expression, indicator)

_create_proper_math_svg(expression) ==
    IF ~is_math(expression)
    THEN _create_readable_text_svg(expression)
    \* if "E = mc^2" in expression or expression == "E = mc^2":
    ELSE IF Contains(expression, <<69, 32, 61, 32, 109, 99, 94, 50>>) \/ expression = <<69, 32, 61, 32, 109, 99, 94, 50>>
    THEN
        Literal(<<"<?xml version='1.0' encoding='UTF-8'?>",
                  "<!-- Generated by KaTeX renderer -->",
                  "<svg version='1.1' xmlns='http://www.w3.org/2000/svg' xmlns:xlink='http://www.w3.org/1999/xlink' width='38.241975pt' height='8.607754pt' viewBox='152.485491 -12.194341 38.241975 8.607754'>",
                  "",
                  "<defs>",
                  "<path id='g0-69' d='M7.053549-2.321295C7.073474-2.371108 7.103362-2.440847 7.103362-2.460772C7.103362-2.470735 7.103362-2.570361 6.983811-2.570361C6.894147-2.570361 6.874222-2.510585 6.854296-2.450809C6.206725-.976339 5.838107-.308842 4.134496-.308842H2.67995C2.540473-.308842 2.520548-.308842 2.460772-.318804C2.361146-.328767 2.331258-.33873 2.331258-.418431C2.331258-.448319 2.331258-.468244 2.381071-.647572L3.058531-3.367372H4.044832C4.891656-3.367372 4.891656-3.158157 4.891656-2.909091C4.891656-2.839352 4.891656-2.719801 4.821918-2.420922C4.801993-2.371108 4.79203-2.34122 4.79203-2.311333C4.79203-2.261519 4.83188-2.201743 4.921544-2.201743C5.001245-2.201743 5.031133-2.251557 5.070984-2.400996L5.638854-4.732254C5.638854-4.79203 5.589041-4.841843 5.519303-4.841843C5.429639-4.841843 5.409714-4.782067 5.379826-4.662516C5.17061-3.905355 4.991283-3.676214 4.07472-3.676214H3.138232L3.73599-6.07721C3.825654-6.425903 3.835616-6.465753 4.273973-6.465753H5.678705C6.894147-6.465753 7.193026-6.176837 7.193026-5.3599C7.193026-5.120797 7.193026-5.100872 7.153176-4.83188C7.153176-4.772105 7.143213-4.702366 7.143213-4.652553S7.173101-4.533001 7.262765-4.533001C7.372354-4.533001 7.382316-4.592777 7.402242-4.782067L7.601494-6.505604C7.631382-6.774595 7.581569-6.774595 7.332503-6.774595H2.30137C2.102117-6.774595 2.002491-6.774595 2.002491-6.575342C2.002491-6.465753 2.092154-6.465753 2.281445-6.465753C2.650062-6.465753 2.929016-6.465753 2.929016-6.286426C2.929016-6.246575 2.929016-6.22665 2.879203-6.047323L1.564134-.777086C1.464508-.388543 1.444583-.308842 .657534-.308842C.488169-.308842 .37858-.308842 .37858-.119552C.37858 0 .468244 0 .657534 0H5.828144C6.057285 0 6.067248-.009963 6.136986-.169365L7.053549-2.321295Z'/>",
                  "<path id='g1-61' d='M6.844334-3.257783C6.993773-3.257783 7.183064-3.257783 7.183064-3.457036S6.993773-3.656289 6.854296-3.656289H.886675C.747198-3.656289 .557908-3.656289 .557908-3.457036S.747198-3.257783 .896638-3.257783H6.844334ZM6.854296-1.325031C6.993773-1.325031 7.183064-1.325031 7.183064-1.524284S6.993773-1.723537 6.844334-1.723537H.896638C.747198-1.723537 .557908-1.723537 .557908-1.524284S.747198-1.325031 .886675-1.325031H6.854296Z'/>",
                  "<path id='g0-109' d='M.876712-.587796C.846824-.438356 .787049-.209215 .787049-.159402C.787049 .019925 .926526 .109589 1.075965 .109589C1.195517 .109589 1.374844 .029888 1.444583-.169365C1.454545-.18929 1.574097-.657534 1.633873-.9066L1.853051-1.803238C1.912827-2.022416 1.972603-2.241594 2.022416-2.470735C2.062267-2.6401 2.141968-2.929016 2.15193-2.968867C2.30137-3.277709 2.82939-4.184309 3.775841-4.184309C4.224159-4.184309 4.313823-3.815691 4.313823-3.486924C4.313823-3.237858 4.244085-2.958904 4.164384-2.660025L3.88543-1.504359L3.686177-.747198C3.646326-.547945 3.556663-.209215 3.556663-.159402C3.556663 .019925 3.696139 .109589 3.845579 .109589C4.154421 .109589 4.214197-.139477 4.293898-.458281C4.433375-1.016189 4.801993-2.470735 4.891656-2.859278C4.921544-2.988792 5.449564-4.184309 6.535492-4.184309C6.963885-4.184309 7.073474-3.845579 7.073474-3.486924C7.073474-2.919054 6.655044-1.783313 6.455791-1.255293C6.366127-1.016189 6.326276-.9066 6.326276-.707347C6.326276-.239103 6.674969 .109589 7.143213 .109589C8.079701 .109589 8.448319-1.344956 8.448319-1.424658C8.448319-1.524284 8.358655-1.524284 8.328767-1.524284C8.229141-1.524284 8.229141-1.494396 8.179328-1.344956C8.029888-.816936 7.711083-.109589 7.163138-.109589C6.993773-.109589 6.924035-.209215 6.924035-.438356C6.924035-.687422 7.013699-.926526 7.103362-1.145704C7.292653-1.663761 7.711083-2.769614 7.711083-3.337484C7.711083-3.985056 7.312578-4.403487 6.56538-4.403487S5.310087-3.965131 4.941469-3.437111C4.931507-3.566625 4.901619-3.905355 4.622665-4.144458C4.373599-4.353674 4.054795-4.403487 3.805729-4.403487C2.909091-4.403487 2.420922-3.765878 2.251557-3.536737C2.201743-4.104608 1.783313-4.403487 1.334994-4.403487C.876712-4.403487 .687422-4.014944 .597758-3.835616C.418431-3.486924 .288917-2.899128 .288917-2.86924C.288917-2.769614 .388543-2.769614 .408468-2.769614C.508095-2.769614 .518057-2.779577 .577833-2.998755C.747198-3.706102 .946451-4.184309 1.305106-4.184309C1.464508-4.184309 1.613948-4.104608 1.613948-3.726027C1.613948-3.516812 1.58406-3.407223 1.454545-2.889166L.876712-.587796Z'/>",
                  "<path id='g0-99' d='M3.945205-3.785803C3.785803-3.785803 3.646326-3.785803 3.506849-3.646326C3.347447-3.496887 3.327522-3.327522 3.327522-3.257783C3.327522-3.01868 3.506849-2.909091 3.696139-2.909091C3.985056-2.909091 4.254047-3.148194 4.254047-3.5467C4.254047-4.034869 3.785803-4.403487 3.078456-4.403487C1.733499-4.403487 .408468-2.978829 .408468-1.574097C.408468-.67746 .986301 .109589 2.022416 .109589C3.447073 .109589 4.283935-.946451 4.283935-1.066002C4.283935-1.125778 4.224159-1.195517 4.164384-1.195517C4.11457-1.195517 4.094645-1.175592 4.034869-1.09589C3.247821-.109589 2.161893-.109589 2.042341-.109589C1.414695-.109589 1.145704-.597758 1.145704-1.195517C1.145704-1.603985 1.344956-2.570361 1.683686-3.188045C1.992528-3.755915 2.540473-4.184309 3.088418-4.184309C3.427148-4.184309 3.805729-4.054795 3.945205-3.785803Z'/>",
                  "<path id='g2-50' d='M3.521793-1.26924H3.284682C3.263761-1.115816 3.194022-.704359 3.103362-.63462C3.047572-.592777 2.510585-.592777 2.412951-.592777H1.129763C1.862017-1.241345 2.106102-1.436613 2.524533-1.764384C3.040598-2.175841 3.521793-2.608219 3.521793-3.270735C3.521793-4.11457 2.782565-4.630635 1.889913-4.630635C1.025156-4.630635 .439352-4.02391 .439352-3.382316C.439352-3.02665 .739228-2.991781 .808966-2.991781C.976339-2.991781 1.17858-3.110336 1.17858-3.361395C1.17858-3.486924 1.129763-3.731009 .767123-3.731009C.983313-4.226152 1.457534-4.379577 1.785305-4.379577C2.48269-4.379577 2.84533-3.835616 2.84533-3.270735C2.84533-2.66401 2.412951-2.182814 2.189788-1.931756L.509091-.27198C.439352-.209215 .439352-.195268 .439352 0H3.312578L3.521793-1.26924Z'/>",
                  "</defs>",
                  "<g id='page1'>",
                  "<use x='152.485491' y='-3.586587' xlink:href='#g0-69'/>",
                  "<use x='163.181416' y='-3.586587' xlink:href='#g1-61'/>",
                  "<use x='173.697496' y='-3.586587' xlink:href='#g0-109'/>",
                  "<use x='182.44483' y='-3.586587' xlink:href='#g0-99'/>",
                  "<use x='186.756226' y='-7.700083' xlink:href='#g2-50'/>",
                  "</g>",
                  "</svg>">>)
    \* elif "sum" in expression and "frac" in expression:
    \* (a character beyond ASCII is written \uXXXX, as Python source may)
    ELSE IF Contains(expression, <<115, 117, 109>>) /\ Contains(expression, <<102, 114, 97, 99>>)
    THEN
        Literal(<<"<?xml version='1.0' encoding='UTF-8'?>",
                  "<!-- Generated by KaTeX renderer -->",
                  "<svg version='1.1' xmlns='http://www.w3.org/2000/svg' xmlns:xlink='http://www.w3.org/1999/xlink' width='180pt' height='50pt' viewBox='0 -25 180 50'>",
                  "",
                  "<defs>",
                  "<!-- Proper Sigma symbol -->",
                  "<path id='sigma' d='M2 -15 L16 -15 L16 -12 L6 0 L16 12 L16 15 L2 15 L2 12 L12 2 L2 2 L2 0 L12 -2 L2 -12 Z'/>",
                  "<!-- Subscript n=1 -->",
                  "<path id='n-small' d='M0 -4 L0 4 L1 4 L1 -4 M1 -4 L3 4 L4 4 L4 -4'/>",
                  "<path id='equals-small' d='M0 -1 L4 -1 M0 1 L4 1'/>",
                  "<path id='one-small' d='M2 -4 L2 4 L3 4 L3 -4 M1 -3 L2 -4'/>",
                  "<!-- Superscript infinity -->",
                  "<path id='infinity' d='M1 -2 Q1 -4 3 -4 Q4 -4 4 -3 Q4 -2 5 -2 Q6 -2 6 -3 Q6 -4 7 -4 Q9 -4 9 -2 Q9 0 7 0 Q6 0 6 -1 Q6 -2 5 -2 Q4 -2 4 -1 Q4 0 3 0 Q1 0 1 -2'/>",
                  "<!-- Fraction 1/n\\u00b2 -->",
                  "<path id='one-big' d='M2 -6 L2 6 L4 6 L4 -6 M0 -4 L2 -6'/>",
                  "<path id='n-big' d='M0 -6 L0 6 L2 6 L2 -6 M2 -6 L6 6 L8 6 L8 -6'/>",
                  "<path id='two-super' d='M0 2 Q0 0 2 0 Q4 0 4 2 Q4 4 2 6 L0 8 L4 8' transform='scale(0.7) translate(8,0)'/>",
                  "<path id='fraction-line' d='M0 0 L12 0'/>",
                  "<!-- Equals sign -->",
                  "<path id='equals-big' d='M0 -2 L12 -2 M0 2 L12 2'/>",
                  "<!-- Pi symbol -->",
                  "<path id='pi-big' d='M1 -8 L1 8 L3 8 L3 -8 M6 -8 L6 8 L8 8 L8 -8 M0 -8 L9 -8'/>",
                  "<path id='two-super-right' d='M0 -6 Q0 -8 2 -8 Q4 -8 4 -6 Q4 -4 2 -2 L0 0 L4 0' transform='scale(0.7)'/>",
                  "<!-- Number 6 -->",
                  "<path id='six-big' d='M6 0 Q6 -4 3 -4 Q0 -4 0 0 Q0 4 3 4 Q6 4 6 0 Q6 4 3 4 Q0 4 0 8 Q0 12 3 12 Q6 12 6 8'/>",
                  "</defs>",
                  "<g id='page1'>",
                  "<!-- Summation symbol -->",
                  "<use x='5' y='0' xlink:href='#sigma'/>",
                  "<!-- n=1 subscript -->",
                  "<use x='8' y='18' xlink:href='#n-small'/>",
                  "<use x='13' y='18' xlink:href='#equals-small'/>",
                  "<use x='18' y='18' xlink:href='#one-small'/>",
                  "<!-- \\u221e superscript -->",
                  "<use x='8' y='-18' xlink:href='#infinity'/>",
                  "",
                  "<!-- Fraction 1/n\\u00b2 -->",
                  "<use x='30' y='-8' xlink:href='#one-big'/>",
                  "<use x='25' y='0' xlink:href='#fraction-line'/>",
                  "<use x='25' y='8' xlink:href='#n-big'/>",
                  "<use x='33' y='6' xlink:href='#two-super'/>",
                  "",
                  "<!-- Equals -->",
                  "<use x='55' y='0' xlink:href='#equals-big'/>",
                  "",
                  "<!-- \\u03c0\\u00b2/6 -->",
                  "<use x='75' y='-8' xlink:href='#pi-big'/>",
                  "<use x='84' y='-12' xlink:href='#two-super-right'/>",
                  "<use x='70' y='0' xlink:href='#fraction-line'/>",
                  "<use x='75' y='8' xlink:href='#six-big'/>",
                  "</g>",
                  "</svg>">>)
    ELSE IF expression = <<120>>                                    \* elif expression == "x":
    THEN
        Literal(<<"<?xml version='1.0' encoding='UTF-8'?>",
                  "<!-- Generated by KaTeX renderer -->",
                  "<svg version='1.1' xmlns='http://www.w3.org/2000/svg' xmlns:xlink='http://www.w3.org/1999/xlink' width='5.693932pt' height='4.289468pt' viewBox='169.008582 -7.876055 5.693932 4.289468'>",
                  "",
                  "<defs>",
                  "<path id='g0-120' d='M3.327522-3.008717C3.387298-3.267746 3.616438-4.184309 4.313823-4.184309C4.363636-4.184309 4.60274-4.184309 4.811955-4.054795C4.533001-4.004981 4.333748-3.755915 4.333748-3.516812C4.333748-3.35741 4.443337-3.16812 4.712329-3.16812C4.931507-3.16812 5.250311-3.347447 5.250311-3.745953C5.250311-4.26401 4.662516-4.403487 4.323786-4.403487C3.745953-4.403487 3.39726-3.875467 3.277709-3.646326C3.028643-4.303861 2.49066-4.403487 2.201743-4.403487C1.165629-4.403487 .597758-3.118306 .597758-2.86924C.597758-2.769614 .697385-2.769614 .71731-2.769614C.797011-2.769614 .826899-2.789539 .846824-2.879203C1.185554-3.935243 1.843088-4.184309 2.181818-4.184309C2.371108-4.184309 2.719801-4.094645 2.719801-3.516812C2.719801-3.20797 2.550436-2.540473 2.181818-1.145704C2.022416-.52802 1.673724-.109589 1.235367-.109589C1.175592-.109589 .946451-.109589 .737235-.239103C.986301-.288917 1.205479-.498132 1.205479-.777086C1.205479-1.046077 .986301-1.125778 .836862-1.125778C.537983-1.125778 .288917-.86675 .288917-.547945C.288917-.089664 .787049 .109589 1.225405 .109589C1.882939 .109589 2.241594-.587796 2.271482-.647572C2.391034-.278954 2.749689 .109589 3.347447 .109589C4.373599 .109589 4.941469-1.175592 4.941469-1.424658C4.941469-1.524284 4.851806-1.524284 4.821918-1.524284C4.732254-1.524284 4.712329-1.484433 4.692403-1.414695C4.363636-.348692 3.686177-.109589 3.367372-.109589C2.978829-.109589 2.819427-.428394 2.819427-.767123C2.819427-.986301 2.879203-1.205479 2.988792-1.643836L3.327522-3.008717Z'/>",
                  "</defs>",
                  "<g id='page1'>",
                  "<use x='169.008582' y='-3.586587' xlink:href='#g0-120'/>",
                  "</g>",
                  "</svg>">>)
    ELSE _create_generic_math_svg(expression)

(***************************************************************************)
(* _render_katex_to_svg_alternative.  A run of the katex CLI ends as a run *)
(* of node does.                                                           *)
(***************************************************************************)
\* Every exception of the try block leads to the fallback.
AlternativeHandled_Exception == {"Exception"}

\* except FileNotFoundError
AlternativeHandled == {"FileNotFoundError"}

\* The f-string svg_wrapper around html_output.
SvgWrapper(html_output) ==
    \* '<svg xmlns="http://www.w3.org/2000/svg" viewBox="0 0 100 50">\n'
    \* '    <foreignObject width="100%" height="100%">\n'
    \* '        <div xmlns="http://www.w3.org/1999/xhtml">\n            '
    <<60, 115, 118, 103, 32, 120, 109, 108, 110, 115, 61, 34, 104, 116, 116, 112, 58, 47, 47, 119, 119, 119, 46, 119, 51, 46, 111, 114, 103, 47, 50, 48, 48, 48, 47, 115, 118, 103, 34, 32, 118, 105, 101, 119, 66, 111, 120, 61, 34, 48, 32, 48, 32, 49, 48, 48, 32, 53, 48, 34, 62, 10, 32, 32, 32, 32, 60, 102, 111, 114, 101, 105, 103, 110, 79, 98, 106, 101, 99, 116, 32, 119, 105, 100, 116, 104, 61, 34, 49, 48, 48, 37, 34, 32, 104, 101, 105, 103, 104, 116, 61, 34, 49, 48, 48, 37, 34, 62, 10, 32, 32, 32, 32, 32, 32, 32, 32, 60, 100, 105, 118, 32, 120, 109, 108, 110, 115, 61, 34, 104, 116, 116, 112, 58, 47, 47, 119, 119, 119, 46, 119, 51, 46, 111, 114, 103, 47, 49, 57, 57, 57, 47, 120, 104, 116, 109, 108, 34, 62, 10, 32, 32, 32, 32, 32, 32, 32, 32, 32, 32, 32, 32>>
    \o html_output
    \* '\n        </div>\n    </foreignObject>\n</svg>'
    \o <<10, 32, 32, 32, 32, 32, 32, 32, 32, 60, 47, 100, 105, 118, 62, 10, 32, 32, 32, 32, 60, 47, 102, 111, 114, 101, 105, 103, 110, 79, 98, 106, 101, 99, 116, 62, 10, 60, 47, 115, 118, 103, 62>>

_render_katex_to_svg_alternative(expression, katex, tex) ==
    LET failed(exc, message, events) ==
            [ret |-> PyNone, raised |-> exc, message |-> message, events |-> events]
        run == Event("katex --display-mode", expression,
                     IF katex.kind = "exit" THEN "exit" \o ToString(katex.returncode)
                     ELSE katex.kind)
        body ==
            IF katex.kind = "timeout" THEN failed("TimeoutExpired", <<>>, <<run>>)
            ELSE IF katex.kind = "notfound" THEN failed("FileNotFoundError", <<>>, <<run>>)
            ELSE IF katex.returncode # 0
            THEN \* "KaTeX CLI failed: {result.stderr}"
                 failed("ValueError", <<75, 97, 84, 101, 88, 32, 67, 76, 73, 32, 102, 97, 105, 108, 101, 100, 58, 32>> \o katex.stderr, <<run>>)
            ELSE [ret |-> Text(SvgWrapper(Strip(katex.stdout))), raised |-> "none",
                  message |-> <<>>, events |-> <<run>>]
        fallback == _render_katex_to_svg(expression, tex)
    IN  IF body.raised = "none" THEN body
        ELSE IF Handles(AlternativeHandled, body.raised)
        THEN [ret |-> fallback.ret, raised |-> fallback.raised, message |-> <<>>,
              events |-> body.events
                         \o <<Event("_render_katex_to_svg", expression, "call")>>
                         \o fallback.events]
        ELSE body

(***************************************************************************)
(* State.                                                                  *)
(***************************************************************************)
VARIABLES
    dirExists,    \* whether tex_dir exists
    files,        \* the files of tex_dir: name -> content
    pc,           \* where each process is in katex_to_svg_file
    args,         \* the arguments of the call in progress
    svg_file,     \* the local svg_file
    svg_content,  \* the local svg_content
    result,       \* how the call ended: the path returned or the exception raised
    trace,        \* what the call in progress has done so far, in order
    fs0,          \* history: the file system as the call in progress found it
    renders,      \* history: calls of _render_katex_to_svg per cache key
    returned,     \* history: the calls that returned, each with its path
    tex_last,     \* history: how the LaTeX pipeline ended the last time it ran
    written,      \* history: what each cache miss wrote, and to which file
    hash_in,      \* the argument of a direct call of katex_hash
    hash_out,     \* what that call returned
    fn_in,        \* a direct call of one of the module's helper functions
    fn_out        \* what that call returned or raised

vars == <<dirExists, files, pc, args, svg_file, svg_content, result, trace,
          fs0, renders, returned, tex_last, written, hash_in, hash_out,
          fn_in, fn_out>>

Unbound == [unbound |-> TRUE]

NoResult == [kind |-> "none"]

Return(path) == [kind |-> "return", path |-> path]

Raise(exc) == [kind |-> "raise", exc |-> exc]

NoFiles == [n \in {} |-> EmptyFile]

FileSystem == [dir |-> dirExists, files |-> files]

Init ==
    /\ dirExists \in BOOLEAN
    /\ files = NoFiles
    /\ pc = [p \in Procs |-> "idle"]
    /\ args = [p \in Procs |-> Unbound]
    /\ svg_file = [p \in Procs |-> Unbound]
    /\ svg_content = [p \in Procs |-> Unbound]
    /\ result = [p \in Procs |-> NoResult]
    /\ trace = [p \in Procs |-> <<>>]
    /\ fs0 = [p \in Procs |-> Unbound]
    /\ renders = [k \in CacheKeys |-> 0]
    /\ returned = {}
    /\ tex_last = "none"
    /\ written = {}
    /\ hash_in = PyNone
    /\ hash_out = <<>>
    /\ fn_in = Unbound
    /\ fn_out = Unbound

hashVars == <<hash_in, hash_out, fn_in, fn_out>>

callVars == <<dirExists, files, pc, args, svg_file, svg_content, result, trace,
              fs0, renders, returned, tex_last, written>>

Did(p, events) == trace' = [trace EXCEPT ![p] = @ \o events]

Goto(p, label) == pc' = [pc EXCEPT ![p] = label]

\* Whether the LaTeX pipeline rendered in the call in progress of p:
\* tex_to_svg_file returned and its file was read.
LatexOutcome(p) ==
    IF \A op \in {"tex_to_svg_file", "open(svg_path).read"} :
           \E i \in 1..Len(trace[p]) : trace[p][i].op = op /\ trace[p][i].out = "ok"
    THEN "ok"
    ELSE "failed"

\* The call ends by raising exc.
Raises(p, exc) ==
    /\ result' = [result EXCEPT ![p] = Raise(exc)]
    /\ Goto(p, "raised")

\* The call ends by returning path.
Returns(p, path) ==
    /\ result' = [result EXCEPT ![p] = Return(path)]
    /\ returned' = returned \cup {[request |-> args[p], path |-> path]}
    /\ Goto(p, "returned")

(***************************************************************************)
(* katex_to_svg_file, step by step.                                        *)
(***************************************************************************)
\* A call that finds KaTeX present goes on at once, whatever the probe said.
KatexMissing_Ignored(e) == FALSE

\* if not ensure_katex_available():
KatexMissing(e) == ~e.ret

\* The path is tested for truth, not for existence.
Exists_Always(file) == TRUE

\* The cache is never consulted.
Exists_Never(file) == FALSE

\* A file that holds the placeholder does not count as cached.
Exists_UnlessPlaceholder(file) ==
    /\ dirExists
    /\ file.name \in DOMAIN files
    /\ files[file.name] # Placeholder

\* svg_file.exists()
Exists(file) == dirExists /\ file.name \in DOMAIN files

\* The program calls katex_to_svg_file(expression, environment, **kwargs).
Calls(p, r) ==
    /\ pc[p] = "idle"
    /\ args' = [args EXCEPT ![p] = r]
    /\ fs0' = [fs0 EXCEPT ![p] = FileSystem]
    /\ Goto(p, "probe")
    /\ UNCHANGED <<dirExists, files, svg_file, svg_content, result, trace,
                   renders, returned, tex_last, written, hashVars>>

Call(p) == \E r \in Requests : Calls(p, r)

\* A probe that times out is tried again.
Probe_Retry(p) ==
    /\ pc[p] = "probe"
    /\ \E node \in ProbeOutcomes, katex \in ProbeOutcomes :
          LET e == ensure_katex_available(node, katex)
          IN  /\ Did(p, e.events \o <<Event("ensure_katex_available", <<>>,
                                           IF e.raised = "none" THEN BoolStr(e.ret)
                                           ELSE e.raised)>>)
              /\ IF e.events[Len(e.events)].out = "timeout"
                 THEN Goto(p, "probe") /\ UNCHANGED result
                 ELSE IF e.raised # "none" THEN Raises(p, e.raised)
                 ELSE IF KatexMissing(e) THEN Raises(p, "RuntimeError")
                 ELSE Goto(p, "dir_exists") /\ UNCHANGED result
    /\ UNCHANGED <<dirExists, files, args, svg_file, svg_content, fs0,
                   renders, returned, tex_last, written, hashVars>>

\* Once a call has returned, KaTeX is taken to be there and is not probed again.
Probe_Remembered(p) ==
    /\ pc[p] = "probe"
    /\ IF returned # {}
       THEN Goto(p, "dir_exists") /\ UNCHANGED <<result, trace>>
       ELSE \E node \in ProbeOutcomes, katex \in ProbeOutcomes :
               LET e == ensure_katex_available(node, katex)
               IN  /\ Did(p, e.events \o <<Event("ensure_katex_available", <<>>,
                                                IF e.raised = "none" THEN BoolStr(e.ret)
                                                ELSE e.raised)>>)
                   /\ IF e.raised # "none" THEN Raises(p, e.raised)
                      ELSE IF KatexMissing(e) THEN Raises(p, "RuntimeError")
                      ELSE Goto(p, "dir_exists") /\ UNCHANGED result
    /\ UNCHANGED <<dirExists, files, args, svg_file, svg_content, fs0,
                   renders, returned, tex_last, written, hashVars>>

\* if not ensure_katex_available(): raise RuntimeError(...)
Probe(p) ==
    /\ pc[p] = "probe"
    /\ \E node \in ProbeOutcomes, katex \in ProbeOutcomes :
          LET e == ensure_katex_available(node, katex)
          IN  /\ Did(p, e.events \o <<Event("ensure_katex_available", <<>>,
                                           IF e.raised = "none" THEN BoolStr(e.ret)
                                           ELSE e.raised)>>)
              /\ IF e.raised # "none" THEN Raises(p, e.raised)
                 ELSE IF KatexMissing(e) THEN Raises(p, "RuntimeError")
                 ELSE Goto(p, "dir_exists") /\ UNCHANGED result
    /\ UNCHANGED <<dirExists, files, args, svg_file, svg_content, fs0,
                   renders, returned, tex_last, written, hashVars>>

\* if not tex_dir.exists():
DirExists(p) ==
    /\ pc[p] = "dir_exists"
    /\ Did(p, <<Event("tex_dir.exists", <<>>, BoolStr(dirExists))>>)
    /\ Goto(p, IF dirExists THEN "file_exists" ELSE "mkdir")
    /\ UNCHANGED <<dirExists, files, args, svg_file, svg_content, result, fs0,
                   renders, returned, tex_last, written, hashVars>>

\* tex_dir.mkdir()
Mkdir(p) ==
    /\ pc[p] = "mkdir"
    /\ IF dirExists
       THEN /\ Did(p, <<Event("tex_dir.mkdir", <<>>, "FileExistsError")>>)
            /\ Raises(p, "FileExistsError")
            /\ UNCHANGED dirExists
       ELSE /\ Did(p, <<Event("tex_dir.mkdir", <<>>, "ok")>>)
            /\ dirExists' = TRUE
            /\ Goto(p, "file_exists")
            /\ UNCHANGED result
    /\ UNCHANGED <<files, args, svg_file, svg_content, fs0, renders, returned,
                   tex_last, written, hashVars>>

\* svg_file = ...; if svg_file.exists(): return svg_file
FileExists(p) ==
    LET file   == SvgFiles[args[p]]
        exists == Exists(file)
    IN  /\ pc[p] = "file_exists"
        /\ svg_file' = [svg_file EXCEPT ![p] = file]
        /\ Did(p, <<Event("svg_file.exists", file.name, BoolStr(exists))>>)
        /\ IF exists THEN Returns(p, file)
           ELSE Goto(p, "render") /\ UNCHANGED <<result, returned>>
        /\ UNCHANGED <<dirExists, files, args, svg_content, fs0, renders, tex_last,
                       written, hashVars>>

\* processed_expression = _process_expression_for_katex(expression, environment)
\* svg_content = _render_katex_to_svg(processed_expression)
Render(p) ==
    /\ pc[p] = "render"
    /\ \E tex \in TexOutcomes :
          LET processed == _process_expression_for_katex(args[p].expression,
                                                         args[p].environment)
              rendered  == _render_katex_to_svg(processed.ret, tex)
              key       == CacheKey(args[p].expression, args[p].environment,
                                    args[p].kwargs)
          IN  /\ Did(p, <<Event("_process_expression_for_katex",
                                args[p].expression, "return")>>
                        \o processed.events
                        \o <<Event("_render_katex_to_svg", processed.ret, "call")>>
                        \o rendered.events)
              /\ renders' = [renders EXCEPT ![key] = @ + 1]
              /\ tex_last' = IF rendered.ret.kind = "latex" THEN "ok" ELSE "failed"
              /\ IF rendered.raised # "none"
                 THEN Raises(p, rendered.raised) /\ UNCHANGED svg_content
                 ELSE /\ svg_content' = [svg_content EXCEPT ![p] = rendered.ret]
                      /\ Goto(p, "write_open")
                      /\ UNCHANGED result
    /\ UNCHANGED <<dirExists, files, args, svg_file, fs0, returned, written,
                   hashVars>>

\* svg_file.write_text(svg_content, encoding="utf-8"): the file is opened for
\* writing, which creates it or empties it, ...
WriteOpen(p) ==
    /\ pc[p] = "write_open"
    /\ IF dirExists
       THEN /\ Did(p, <<Event("svg_file.open", svg_file[p].name, "w")>>)
            /\ files' = [n \in DOMAIN files \cup {svg_file[p].name} |->
                            IF n = svg_file[p].name THEN EmptyFile ELSE files[n]]
            /\ Goto(p, "write")
            /\ UNCHANGED result
       ELSE /\ Did(p, <<Event("svg_file.open", svg_file[p].name, "FileNotFoundError")>>)
            /\ Raises(p, "FileNotFoundError")
            /\ UNCHANGED files
    /\ UNCHANGED <<dirExists, args, svg_file, svg_content, fs0, renders,
                   returned, tex_last, written, hashVars>>

\* ... and the content is written to it; return svg_file
Write(p) ==
    /\ pc[p] = "write"
    /\ Did(p, <<Event("svg_file.write", svg_file[p].name, "ok")>>)
    /\ files' = [files EXCEPT ![svg_file[p].name] = svg_content[p]]
    /\ written' = written \cup {[request |-> args[p],
                                  latex   |-> LatexOutcome(p),
                                  name    |-> svg_file[p].name,
                                  content |-> svg_content[p]]}
    /\ Returns(p, svg_file[p])
    /\ UNCHANGED <<dirExists, args, svg_file, svg_content, fs0, renders, tex_last,
                   hashVars>>

\* The caller has the path or the exception; the call's frame is gone.
Finish(p) ==
    /\ pc[p] \in {"returned", "raised"}
    /\ Goto(p, "idle")
    /\ args' = [args EXCEPT ![p] = Unbound]
    /\ svg_file' = [svg_file EXCEPT ![p] = Unbound]
    /\ svg_content' = [svg_content EXCEPT ![p] = Unbound]
    /\ result' = [result EXCEPT ![p] = NoResult]
    /\ trace' = [trace EXCEPT ![p] = <<>>]
    /\ fs0' = [fs0 EXCEPT ![p] = Unbound]
    /\ UNCHANGED <<dirExists, files, renders, returned, tex_last, written, hashVars>>

\* A step of the call in progress.
Step(p) ==
    \/ Probe(p)
    \/ DirExists(p)
    \/ Mkdir(p)
    \/ FileExists(p)
    \/ Render(p)
    \/ WriteOpen(p)
    \/ Write(p)

Next == \E p \in Procs : Call(p) \/ Step(p) \/ Finish(p)

Spec == Init /\ [][Next]_vars

\* A call that has started runs on: the module is synchronous code.
FairSpec == Spec /\ \A p \in Procs : WF_vars(Step(p))

(***************************************************************************)
(* Two processes that share tex_dir, each calling katex_to_svg_file.       *)
(***************************************************************************)
ConcProcs == {"main", "other"}

\* How many of the requests of RequestList the two processes make.
NumConcRequests == 1

ConcRequests == {RequestList[i] : i \in 1..NumConcRequests}

ConcInit ==
    /\ dirExists \in BOOLEAN
    /\ files = NoFiles
    /\ pc = [p \in ConcProcs |-> "idle"]
    /\ args = [p \in ConcProcs |-> Unbound]
    /\ svg_file = [p \in ConcProcs |-> Unbound]
    /\ svg_content = [p \in ConcProcs |-> Unbound]
    /\ result = [p \in ConcProcs |-> NoResult]
    /\ trace = [p \in ConcProcs |-> <<>>]
    /\ fs0 = [p \in ConcProcs |-> Unbound]
    /\ renders = [k \in CacheKeys |-> 0]
    /\ returned = {}
    /\ tex_last = "none"
    /\ written = {}
    /\ hash_in = PyNone
    /\ hash_out = <<>>
    /\ fn_in = Unbound
    /\ fn_out = Unbound

ConcCall(p) == \E r \in ConcRequests : Calls(p, r)

ConcNext == \E p \in ConcProcs : ConcCall(p) \/ Step(p) \/ Finish(p)

\* The steps of the two calls interleave in any order.
ConcSpec == ConcInit /\ [][ConcNext]_vars

(***************************************************************************)
(* katex_hash called by itself, on strings, integers and None.             *)
(***************************************************************************)
\* The longest string hashed.
MaxHashLen == 3

\* The largest integer hashed, in absolute value.
MaxHashInt == 6

HashAlphabet == {97, 98, 99}                                      \* "abc"

RECURSIVE StringsOfLen(_)
StringsOfLen(n) ==
    IF n = 0 THEN {<<>>}
    ELSE {<<c>> \o s : c \in HashAlphabet, s \in StringsOfLen(n - 1)}

HashInputs ==
    {PyNone}
    \cup {PyInt(n) : n \in (0 - MaxHashInt)..MaxHashInt}
    \cup {Str(s) : s \in UNION {StringsOfLen(n) : n \in 0..MaxHashLen}}

HashInit ==
    /\ dirExists = FALSE
    /\ files = NoFiles
    /\ pc = [p \in Procs |-> "idle"]
    /\ args = [p \in Procs |-> Unbound]
    /\ svg_file = [p \in Procs |-> Unbound]
    /\ svg_content = [p \in Procs |-> Unbound]
    /\ result = [p \in Procs |-> NoResult]
    /\ trace = [p \in Procs |-> <<>>]
    /\ fs0 = [p \in Procs |-> Unbound]
    /\ renders = [k \in CacheKeys |-> 0]
    /\ returned = {}
    /\ tex_last = "none"
    /\ written = {}
    /\ hash_in \in HashInputs
    /\ hash_out = <<>>
    /\ fn_in = Unbound
    /\ fn_out = Unbound

\* hash_out = katex_hash(hash_in)
HashCall ==
    /\ hash_out = <<>>
    /\ hash_out' = katex_hash(hash_in)
    /\ UNCHANGED <<hash_in, fn_in, fn_out, callVars>>

HashNext == HashCall

HashSpec == HashInit /\ [][HashNext]_vars

(***************************************************************************)
(* The helper functions called by themselves.                              *)
(***************************************************************************)
\* The longest expression made of the characters of ExprAlphabet.
MaxExprLen == 2

ExprAlphabet == {36, 92, 120, 32}                                 \* "$\x "

RECURSIVE ExprsOfLen(_)
ExprsOfLen(n) ==
    IF n = 0 THEN {<<>>}
    ELSE {<<c>> \o s : c \in ExprAlphabet, s \in ExprsOfLen(n - 1)}

DirectExpressions ==
    UNION {ExprsOfLen(n) : n \in 0..MaxExprLen}
    \cup {<<69, 32, 61, 32, 109, 99, 94, 50>>,      \* "E = mc^2"
          <<92, 98, 101, 103, 105, 110>>,                          \* "\begin"
          <<92, 98, 101, 103, 105>>,                               \* "\begi"
          <<92, 66, 101, 103, 105, 110>>,                          \* "\Begin"
          <<32, 92, 98, 101, 103, 105, 110>>,                     \* " \begin"
          \* "\begin{align*}x\end{align*}"
          <<92, 98, 101, 103, 105, 110, 123, 97, 108, 105, 103, 110, 42, 125, 120, 92, 101, 110, 100, 123, 97, 108, 105, 103, 110, 42, 125>>,
          <<97, 36>>,                                              \* "a$"
          <<69, 61, 109, 99, 94, 50>>,                          \* "E=mc^2"
          <<69, 32, 61, 32, 109, 99, 94, 50, 32>>}               \* "E = mc^2 "

DirectEnvironments ==
    {PyNone,
     Str(<<97, 108, 105, 103, 110, 42>>),                      \* "align*"
     Str(<<101, 113, 117, 97, 116, 105, 111, 110, 42>>),       \* "equation*"
     Str(<<99, 101, 110, 116, 101, 114>>)}                     \* "center"
    \cup {Str(<<102, 105, 103, 117, 114, 101>>),                    \* "figure"
          Str(<<97, 108, 105, 103, 110>>),                            \* "align"
          Str(<<67, 101, 110, 116, 101, 114>>),                    \* "Center"
          Str(<<99, 101, 110, 116, 101, 114, 32>>),                   \* "center "
          Str(<<78, 111, 110, 101>>),                              \* "None"
          Str(<<>>)}

\* What node may write to stdout.
NodeStdouts ==
    {\* '<svg xmlns="http://www.w3.org/2000/svg"><title>x</title><g stroke="currentColor"
     \* fill="currentColor" stroke-width="1"><path fill="#1a2B3c" d="M0 0"/></g></svg>\n'
     <<60, 115, 118, 103, 32, 120, 109, 108, 110, 115, 61, 34, 104, 116, 116, 112, 58, 47, 47, 119, 119, 119, 46, 119, 51, 46, 111, 114, 103, 47, 50, 48, 48, 48, 47, 115, 118, 103, 34, 62, 60, 116, 105, 116, 108, 101, 62, 120, 60, 47, 116, 105, 116, 108, 101, 62, 60, 103, 32, 115, 116, 114, 111, 107, 101, 61, 34, 99, 117, 114, 114, 101, 110, 116, 67, 111, 108, 111, 114, 34, 32, 102, 105, 108, 108, 61, 34, 99, 117, 114, 114, 101, 110, 116, 67, 111, 108, 111, 114, 34, 32, 115, 116, 114, 111, 107, 101, 45, 119, 105, 100, 116, 104, 61, 34, 49, 34, 62, 60, 112, 97, 116, 104, 32, 102, 105, 108, 108, 61, 34, 35, 49, 97, 50, 66, 51, 99, 34, 32, 100, 61, 34, 77, 48, 32, 48, 34, 47, 62, 60, 47, 103, 62, 60, 47, 115, 118, 103, 62, 10>>,
     <<>>,
     <<10, 32, 10>>,                                                \* "\n \n"
     <<32, 32, 60, 115, 118, 103, 47, 62, 13, 10>>,             \* "  <svg/>\r\n"
     <<60, 115, 118, 103>>,                                         \* "<svg"
     <<60, 83, 86, 71, 62>>,                                         \* "<SVG>"
     <<115, 118, 103, 62>>,                                          \* "svg>"
     \* "<html><svg/></html>"
     <<60, 104, 116, 109, 108, 62, 60, 115, 118, 103, 47, 62, 60, 47, 104, 116, 109, 108, 62>>,
     \* "<?xml version='1.0'?><svg/>"
     <<60, 63, 120, 109, 108, 32, 118, 101, 114, 115, 105, 111, 110, 61, 39, 49, 46, 48, 39, 63, 62, 60, 115, 118, 103, 47, 62>>}

\* What node may write to stderr.
NodeStderrs ==
    {<<>>,
     <<75, 97, 84, 101, 88, 32, 114, 101, 110, 100, 101, 114, 105, 110, 103, 32, 101, 114, 114, 111, 114, 58, 32, 120, 10>>}   \* "KaTeX rendering error: x\n"

NodeRuns ==
    {Exited(returncode, stdout, stderr) :
        returncode \in {0, 1, 0 - 9}, stdout \in NodeStdouts, stderr \in NodeStderrs}
    \cup {TimedOut, NotFound}

\* SVG texts handed to _improve_svg_for_manim: what MathJax writes, and texts
\* in which removing one match brings the two sides of another together.
SvgTexts ==
     \* <svg xmlns="http://www.w3.org/2000/svg"><title>x</title><g stroke="cur
     \* rentColor" fill="currentColor" stroke-width="1"><path fill="#1a2B3c" d
     \* ="M0 0"/></g></svg>
    {<<60, 115, 118, 103, 32, 120, 109, 108, 110, 115, 61, 34, 104, 116, 116, 112, 58, 47, 47, 119, 119, 119, 46, 119, 51, 46, 111, 114, 103, 47, 50, 48, 48, 48, 47, 115, 118, 103, 34, 62, 60, 116, 105, 116, 108, 101, 62, 120, 60, 47, 116, 105, 116, 108, 101, 62, 60, 103, 32, 115, 116, 114, 111, 107, 101, 61, 34, 99, 117, 114, 114, 101, 110, 116, 67, 111, 108, 111, 114, 34, 32, 102, 105, 108, 108, 61, 34, 99, 117, 114, 114, 101, 110, 116, 67, 111, 108, 111, 114, 34, 32, 115, 116, 114, 111, 107, 101, 45, 119, 105, 100, 116, 104, 61, 34, 49, 34, 62, 60, 112, 97, 116, 104, 32, 102, 105, 108, 108, 61, 34, 35, 49, 97, 50, 66, 51, 99, 34, 32, 100, 61, 34, 77, 48, 32, 48, 34, 47, 62, 60, 47, 103, 62, 60, 47, 115, 118, 103, 62>>,
     \* <svg/>
     <<60, 115, 118, 103, 47, 62>>,
     \* <svg><title>a</title><title>b</title></svg>
     <<60, 115, 118, 103, 62, 60, 116, 105, 116, 108, 101, 62, 97, 60, 47, 116, 105, 116, 108, 101, 62, 60, 116, 105, 116, 108, 101, 62, 98, 60, 47, 116, 105, 116, 108, 101, 62, 60, 47, 115, 118, 103, 62>>,
     \* <svg><title>a<title>b</title>c</title></svg>
     <<60, 115, 118, 103, 62, 60, 116, 105, 116, 108, 101, 62, 97, 60, 116, 105, 116, 108, 101, 62, 98, 60, 47, 116, 105, 116, 108, 101, 62, 99, 60, 47, 116, 105, 116, 108, 101, 62, 60, 47, 115, 118, 103, 62>>,
     \* <svg><g\n stroke="currentColor"\n fill="currentColor"></g></svg>
     <<60, 115, 118, 103, 62, 60, 103, 10, 32, 115, 116, 114, 111, 107, 101, 61, 34, 99, 117, 114, 114, 101, 110, 116, 67, 111, 108, 111, 114, 34, 10, 32, 102, 105, 108, 108, 61, 34, 99, 117, 114, 114, 101, 110, 116, 67, 111, 108, 111, 114, 34, 62, 60, 47, 103, 62, 60, 47, 115, 118, 103, 62>>,
     \* <svg stroke="currentColor" fill="currentColor" stroke-width="10"><path
     \*  fill="#12345" stroke-width="1"/></svg>
     <<60, 115, 118, 103, 32, 115, 116, 114, 111, 107, 101, 61, 34, 99, 117, 114, 114, 101, 110, 116, 67, 111, 108, 111, 114, 34, 32, 102, 105, 108, 108, 61, 34, 99, 117, 114, 114, 101, 110, 116, 67, 111, 108, 111, 114, 34, 32, 115, 116, 114, 111, 107, 101, 45, 119, 105, 100, 116, 104, 61, 34, 49, 48, 34, 62, 60, 112, 97, 116, 104, 32, 102, 105, 108, 108, 61, 34, 35, 49, 50, 51, 52, 53, 34, 32, 115, 116, 114, 111, 107, 101, 45, 119, 105, 100, 116, 104, 61, 34, 49, 34, 47, 62, 60, 47, 115, 118, 103, 62>>,
     \* <svg><text> stroke="currentColor" stroke="currentColor" fill="currentC
     \* olor" fill="currentColor"</text></svg>
     <<60, 115, 118, 103, 62, 60, 116, 101, 120, 116, 62, 32, 115, 116, 114, 111, 107, 101, 61, 34, 99, 117, 114, 114, 101, 110, 116, 67, 111, 108, 111, 114, 34, 32, 115, 116, 114, 111, 107, 101, 61, 34, 99, 117, 114, 114, 101, 110, 116, 67, 111, 108, 111, 114, 34, 32, 102, 105, 108, 108, 61, 34, 99, 117, 114, 114, 101, 110, 116, 67, 111, 108, 111, 114, 34, 32, 102, 105, 108, 108, 61, 34, 99, 117, 114, 114, 101, 110, 116, 67, 111, 108, 111, 114, 34, 60, 47, 116, 101, 120, 116, 62, 60, 47, 115, 118, 103, 62>>,
     \* <svg><tit<title>a</title>le>b</title></svg>
     <<60, 115, 118, 103, 62, 60, 116, 105, 116, 60, 116, 105, 116, 108, 101, 62, 97, 60, 47, 116, 105, 116, 108, 101, 62, 108, 101, 62, 98, 60, 47, 116, 105, 116, 108, 101, 62, 60, 47, 115, 118, 103, 62>>,
     \* <svg><tit stroke="currentColor" fill="currentColor"le>x</title></svg>
     <<60, 115, 118, 103, 62, 60, 116, 105, 116, 32, 115, 116, 114, 111, 107, 101, 61, 34, 99, 117, 114, 114, 101, 110, 116, 67, 111, 108, 111, 114, 34, 32, 102, 105, 108, 108, 61, 34, 99, 117, 114, 114, 101, 110, 116, 67, 111, 108, 111, 114, 34, 108, 101, 62, 120, 60, 47, 116, 105, 116, 108, 101, 62, 60, 47, 115, 118, 103, 62>>,
     \* <svg stroke-width="<title>t</title>1" fill="#<title>t</title>abcdef"/>
     <<60, 115, 118, 103, 32, 115, 116, 114, 111, 107, 101, 45, 119, 105, 100, 116, 104, 61, 34, 60, 116, 105, 116, 108, 101, 62, 116, 60, 47, 116, 105, 116, 108, 101, 62, 49, 34, 32, 102, 105, 108, 108, 61, 34, 35, 60, 116, 105, 116, 108, 101, 62, 116, 60, 47, 116, 105, 116, 108, 101, 62, 97, 98, 99, 100, 101, 102, 34, 47, 62>>}

\* The expressions handed to _create_proper_math_svg: the ones above, and
\* some with math indicators or with words in them.
ProperExpressions ==
    DirectExpressions
    \cup {<<120, 94, 50>>,                                              \* "x^2"
          <<120, 43, 120>>,                                             \* "x+x"
          <<45, 120>>,                                                  \* "-x"
          <<120, 61>>,                                                  \* "x="
          <<120, 95, 50>>,                                              \* "x_2"
          <<120, 120, 94>>,                                             \* "xx^"
          <<97, 32, 69, 32, 61, 32, 109, 99, 94, 50, 32, 98>>,          \* "a E = mc^2 b"
          <<92, 115, 117, 109, 32, 92, 102, 114, 97, 99, 123, 49, 125, 123, 110, 94, 50, 125>>, \* "\sum \frac{1}{n^2}"
          <<92, 102, 114, 97, 99, 123, 120, 125, 123, 120, 125>>,       \* "\frac{x}{x}"
          <<84, 104, 105, 115, 32, 105, 115, 32, 115, 111, 109, 101, 32, 76, 97, 84, 101, 88>>, \* "This is some LaTeX"
          <<120, 32, 121>>,                                             \* "x y"
          <<88>>,                                                       \* "X"
          <<50, 120, 43, 121, 61, 122, 94, 50>>}                        \* "2x+y=z^2"

DirectInputs ==
    {[fn |-> "_process_expression_for_katex", expression |-> e, environment |-> env] :
        e \in DirectExpressions, env \in DirectEnvironments}
    \cup {[fn |-> "_render_katex_to_svg", expression |-> e, tex |-> tex] :
             e \in DirectExpressions, tex \in TexOutcomes}
    \cup {[fn |-> "_katex_to_svg_via_mathjax", expression |-> e, node |-> node] :
             e \in DirectExpressions, node \in NodeRuns}
    \cup {[fn |-> "_render_katex_to_svg_alternative", expression |-> e,
           katex |-> katex, tex |-> tex] :
             e \in DirectExpressions, katex \in NodeRuns, tex \in TexOutcomes}
    \cup {[fn |-> "_improve_svg_for_manim", svg_content |-> svg] : svg \in SvgTexts}
    \cup {[fn |-> "_create_proper_math_svg", expression |-> e] : e \in ProperExpressions}

DirectInit ==
    /\ dirExists = FALSE
    /\ files = NoFiles
    /\ pc = [p \in Procs |-> "idle"]
    /\ args = [p \in Procs |-> Unbound]
    /\ svg_file = [p \in Procs |-> Unbound]
    /\ svg_content = [p \in Procs |-> Unbound]
    /\ result = [p \in Procs |-> NoResult]
    /\ trace = [p \in Procs |-> <<>>]
    /\ fs0 = [p \in Procs |-> Unbound]
    /\ renders = [k \in CacheKeys |-> 0]
    /\ returned = {}
    /\ tex_last = "none"
    /\ written = {}
    /\ hash_in = PyNone
    /\ hash_out = <<>>
    /\ fn_in \in DirectInputs
    /\ fn_out = Unbound

\* fn_out = _process_expression_for_katex(expression, environment)
CallProcessExpression ==
    /\ fn_out = Unbound
    /\ fn_in.fn = "_process_expression_for_katex"
    /\ fn_out' = _process_expression_for_katex(fn_in.expression, fn_in.environment)
    /\ UNCHANGED <<fn_in, hash_in, hash_out, callVars>>

\* fn_out = _render_katex_to_svg(expression)
CallRender ==
    /\ fn_out = Unbound
    /\ fn_in.fn = "_render_katex_to_svg"
    /\ fn_out' = _render_katex_to_svg(fn_in.expression, fn_in.tex)
    /\ UNCHANGED <<fn_in, hash_in, hash_out, callVars>>

\* fn_out = _katex_to_svg_via_mathjax(expression)
CallViaMathjax ==
    /\ fn_out = Unbound
    /\ fn_in.fn = "_katex_to_svg_via_mathjax"
    /\ fn_out' = _katex_to_svg_via_mathjax(fn_in.expression, fn_in.node)
    /\ UNCHANGED <<fn_in, hash_in, hash_out, callVars>>

\* fn_out = _render_katex_to_svg_alternative(expression)
CallAlternative ==
    /\ fn_out = Unbound
    /\ fn_in.fn = "_render_katex_to_svg_alternative"
    /\ fn_out' = _render_katex_to_svg_alternative(fn_in.expression, fn_in.katex, fn_in.tex)
    /\ UNCHANGED <<fn_in, hash_in, hash_out, callVars>>

\* fn_out = _improve_svg_for_manim(svg_content)
CallImprove ==
    /\ fn_out = Unbound
    /\ fn_in.fn = "_improve_svg_for_manim"
    /\ fn_out' = [ret |-> Text(_improve_svg_for_manim(fn_in.svg_content)),
                  raised |-> "none", events |-> <<>>]
    /\ UNCHANGED <<fn_in, hash_in, hash_out, callVars>>

\* fn_out = _create_proper_math_svg(expression)
CallProperMath ==
    /\ fn_out = Unbound
    /\ fn_in.fn = "_create_proper_math_svg"
    /\ fn_out' = [ret |-> _create_proper_math_svg(fn_in.expression),
                  raised |-> "none", events |-> <<>>]
    /\ UNCHANGED <<fn_in, hash_in, hash_out, callVars>>

DirectNext ==
    \/ CallProcessExpression
    \/ CallRender
    \/ CallViaMathjax
    \/ CallAlternative
    \/ CallImprove
    \/ CallProperMath

DirectSpec == DirectInit /\ [][DirectNext]_vars

(***************************************************************************)
(* What the traces and the history say.                                    *)
(***************************************************************************)
\* The call in progress of p has done op.
InTrace(p, op) == \E i \in 1..Len(trace[p]) : trace[p][i].op = op

\* The call in progress of p has done op, and it ended as out.
Outcome(p, op, out) ==
    \E i \in 1..Len(trace[p]) : trace[p][i].op = op /\ trace[p][i].out = out

\* How often the call in progress of p has done op.
Count(p, op) == Cardinality({i \in 1..Len(trace[p]) : trace[p][i].op = op})

Active(p) == pc[p] # "idle"

Ended(p) == pc[p] \in {"returned", "raised"}

ProbeOps == {"node --version", "node -e require('katex')", "ensure_katex_available"}

\* The file name katex_to_svg_file returns for each request of RequestList,
\* as CPython computes it.
ExpectedNames ==
    << \* "da90127fb093abeb.svg"
       <<100, 97, 57, 48, 49, 50, 55, 102, 98, 48, 57, 51, 97, 98, 101, 98, 46, 115, 118, 103>>,
       \* "9ddda09d27cdda23.svg"
       <<57, 100, 100, 100, 97, 48, 57, 100, 50, 55, 99, 100, 100, 97, 50, 51, 46, 115, 118, 103>>,
       \* "f529a54638ad0fca.svg"
       <<102, 53, 50, 57, 97, 53, 52, 54, 51, 56, 97, 100, 48, 102, 99, 97, 46, 115, 118, 103>>,
       \* "b4c259edbf974671.svg"
       <<98, 52, 99, 50, 53, 57, 101, 100, 98, 102, 57, 55, 52, 54, 55, 49, 46, 115, 118, 103>>,
       \* "25fbc2e1d250a868.svg"
       <<50, 53, 102, 98, 99, 50, 101, 49, 100, 50, 53, 48, 97, 56, 54, 56, 46, 115, 118, 103>>,
       \* "25fbc2e1d250a868.svg"
       <<50, 53, 102, 98, 99, 50, 101, 49, 100, 50, 53, 48, 97, 56, 54, 56, 46, 115, 118, 103>>,
       \* "62aafd4acf0850ca.svg"
       <<54, 50, 97, 97, 102, 100, 52, 97, 99, 102, 48, 56, 53, 48, 99, 97, 46, 115, 118, 103>>,
       \* "8c1a3da98f2cb167.svg"
       <<56, 99, 49, 97, 51, 100, 97, 57, 56, 102, 50, 99, 98, 49, 54, 55, 46, 115, 118, 103>>
    >>

ExpectedName(r) == ExpectedNames[CHOOSE i \in 1..Len(RequestList) : RequestList[i] = r]

KeyOf(r) == CacheKey(r.expression, r.environment, r.kwargs)

(***************************************************************************)
(* C1.  When ensure_katex_available() returns False, the call raises       *)
(* RuntimeError whatever its arguments, and it has done nothing but probe: *)
(* tex_dir and the files in it are as the call found them.                 *)
(***************************************************************************)
C1_UnavailableRaisesUntouched ==
    \A p \in Procs :
        Outcome(p, "ensure_katex_available", "False") =>
            /\ pc[p] = "raised"
            /\ result[p] = Raise("RuntimeError")
            /\ \A i \in 1..Len(trace[p]) : trace[p][i].op \in ProbeOps
            /\ FileSystem = fs0[p]

\* A call with keyword arguments raised for want of KaTeX while the cache
\* held a file.
C1_Witness ==
    \E p \in Procs :
        /\ Outcome(p, "ensure_katex_available", "False")
        /\ result[p] = Raise("RuntimeError")
        /\ args[p].kwargs # <<>>
        /\ DOMAIN files # {}

(***************************************************************************)
(* C2, as stated.  Two calls that return with equal expression, equal      *)
(* environment and equal kwargs (as dicts) return the same path.           *)
(***************************************************************************)
C2_EqualArgumentsSamePath ==
    \A a \in returned, b \in returned :
        ( /\ a.request.expression = b.request.expression
          /\ a.request.environment = b.request.environment
          /\ DictEq(a.request.kwargs, b.request.kwargs) )
        => a.path = b.path

(***************************************************************************)
(* C2, amended.  Two calls that return with equal cache keys (the string   *)
(* f"{expression}_{environment}_{kwargs}") return the same path, and the   *)
(* path of a call is tex_dir / (katex_hash(cache_key) + ".svg").           *)
(***************************************************************************)
C2_SameKeySamePath ==
    /\ \A a \in returned, b \in returned :
          KeyOf(a.request) = KeyOf(b.request) => a.path = b.path
    /\ \A a \in returned : a.path = Path(ExpectedName(a.request))

\* The same call has returned by a cache miss and then by a cache hit, and
\* so has a call with other keyword arguments.
C2_Witness ==
    /\ Cardinality(returned) >= 2
    /\ \E p \in Procs :
          /\ pc[p] = "returned"
          /\ Outcome(p, "svg_file.exists", "True")
          /\ renders[KeyOf(args[p])] = 1

(***************************************************************************)
(* C3.  When the call returns, tex_dir exists and the path returned is a   *)
(* file of tex_dir that holds SVG: what was there on a cache hit, what     *)
(* _render_katex_to_svg just returned on a cache miss.                     *)
(***************************************************************************)
\* What _render_katex_to_svg returned in the call in progress of p, by the
\* LaTeX pipeline's outcome.
Rendered(p) ==
    LET i == CHOOSE j \in 1..Len(trace[p]) : trace[p][j].op = "tex_to_svg_file"
    IN  IF trace[p][i].out = "ok" /\ Outcome(p, "open(svg_path).read", "ok")
        THEN LatexSvg(trace[p][i].arg)
        ELSE Placeholder

C3_ReturnedPathHoldsSvg ==
    \A p \in Procs :
        pc[p] = "returned" =>
            /\ dirExists
            /\ result[p].kind = "return"
            /\ result[p].path.dir = "tex_dir"
            /\ result[p].path.name \in DOMAIN files
            /\ IsSvg(files[result[p].path.name])
            /\ IF Outcome(p, "svg_file.exists", "True")
               THEN /\ result[p].path.name \in DOMAIN fs0[p].files
                    /\ files[result[p].path.name] = fs0[p].files[result[p].path.name]
               ELSE /\ InTrace(p, "_render_katex_to_svg")
                    /\ files[result[p].path.name] = Rendered(p)

\* A call returned the placeholder it had just written into a directory it
\* had just made.
C3_Witness ==
    \E p \in Procs :
        /\ pc[p] = "returned"
        /\ Outcome(p, "tex_dir.mkdir", "ok")
        /\ files[result[p].path.name] = Placeholder

(***************************************************************************)
(* C4.  Cache hit: a call that finds KaTeX present and the file of its     *)
(* cache key in place returns that file's path; it neither renders nor     *)
(* writes, and every file of the cache is as the call found it.            *)
(***************************************************************************)
CacheHit(p) ==
    /\ Active(p)
    /\ Outcome(p, "ensure_katex_available", "True")
    /\ fs0[p].dir
    /\ ExpectedName(args[p]) \in DOMAIN fs0[p].files

C4_CacheHitReturnsUntouched ==
    \A p \in Procs :
        CacheHit(p) =>
            /\ pc[p] \in {"dir_exists", "file_exists", "returned"}
            /\ ~InTrace(p, "_render_katex_to_svg")
            /\ ~InTrace(p, "tex_to_svg_file")
            /\ ~InTrace(p, "svg_file.open")
            /\ ~InTrace(p, "svg_file.write")
            /\ files = fs0[p].files
            /\ pc[p] = "returned" => result[p] = Return(Path(ExpectedName(args[p])))

\* A cache hit has returned while the cache held another file as well.
C4_Witness ==
    \E p \in Procs :
        /\ CacheHit(p)
        /\ pc[p] = "returned"
        /\ Cardinality(DOMAIN files) >= 2

(***************************************************************************)
(* C5.  Repeated calls are idempotent: _render_katex_to_svg runs at most   *)
(* once per cache key, and a call whose arguments an earlier call returned *)
(* for changes neither tex_dir nor any file in it.                         *)
(***************************************************************************)
Repeated(p) == Active(p) /\ \E e \in returned : e.request = args[p]

C5_RepeatedCallsIdempotent ==
    /\ [](\A k \in CacheKeys : renders[k] <= 1)
    /\ [][\A p \in Procs : Repeated(p) => UNCHANGED <<dirExists, files>>]_vars

\* A repeated call has returned the placeholder its first call cached, with
\* every request rendered once.
C5_Witness ==
    /\ \A k \in CacheKeys : renders[k] = 1
    /\ \E p \in Procs :
          /\ pc[p] = "returned"
          /\ Outcome(p, "svg_file.exists", "True")
          /\ files[result[p].path.name] = Placeholder

(***************************************************************************)
(* C6.  _render_katex_to_svg never raises: if tex_to_svg_file or the read  *)
(* of its file raises, a warning is logged and the rectangle placeholder   *)
(* is returned, otherwise the LaTeX pipeline's SVG; so a call that found   *)
(* KaTeX present and came to render does not raise.                        *)
(***************************************************************************)
LatexFailed(p) ==
    ~(Outcome(p, "tex_to_svg_file", "ok") /\ Outcome(p, "open(svg_path).read", "ok"))

C6_RenderFallsBack ==
    \A p \in Procs :
        InTrace(p, "_render_katex_to_svg") =>
            /\ pc[p] \in {"write_open", "write", "returned"}
            /\ result[p].kind # "raise"
            /\ IF LatexFailed(p)
               THEN /\ svg_content[p] = Placeholder
                    /\ Outcome(p, "logger.warning", "LaTeX fallback failed")
               ELSE /\ svg_content[p] = LatexSvg(MathExpression(args[p].expression))
                    /\ ~Outcome(p, "logger.warning", "LaTeX fallback failed")

\* The LaTeX pipeline made its file, the file could not be read, and the
\* call went on with the placeholder.
C6_Witness ==
    \E p \in Procs :
        /\ Outcome(p, "open(svg_path).read", "OSError")
        /\ svg_content[p] = Placeholder
        /\ pc[p] = "returned"

(***************************************************************************)
(* C7.  The KaTeX pipeline is bypassed: the only subprocesses a call       *)
(* starts are the two probes, once each; _katex_to_svg_via_mathjax and the *)
(* SVG template functions are not called; and what is in the cache is what *)
(* _render_katex_to_svg returned, the LaTeX pipeline's SVG or the          *)
(* placeholder.                                                            *)
(***************************************************************************)
\* Every subprocess.run of the module.
SubprocessOps ==
    {"node --version", "node -e require('katex')", "node -e conversion_script",
     "katex --display-mode"}

BypassedOps ==
    {"_katex_to_svg_via_mathjax", "_improve_svg_for_manim", "_create_simple_math_svg",
     "_create_proper_math_svg", "_render_katex_to_svg_alternative"}

C7_KatexPipelineBypassed ==
    /\ \A p \in Procs :
          /\ \A i \in 1..Len(trace[p]) :
                /\ trace[p][i].op \notin BypassedOps
                /\ trace[p][i].op \in SubprocessOps =>
                       trace[p][i].op \in {"node --version", "node -e require('katex')"}
          /\ Count(p, "node --version") <= 1
          /\ Count(p, "node -e require('katex')") <= 1
          /\ InTrace(p, "svg_file.write") =>
                 files[svg_file[p].name] = Rendered(p)
    /\ \A n \in DOMAIN files : files[n].kind \in {"latex", "placeholder", "empty"}

\* A call rendered, wrote the LaTeX pipeline's SVG and returned, having
\* started the two probes.
C7_Witness ==
    \E p \in Procs :
        /\ pc[p] = "returned"
        /\ Count(p, "node --version") + Count(p, "node -e require('katex')") = 2
        /\ InTrace(p, "svg_file.write")
        /\ files[svg_file[p].name].kind = "latex"

(***************************************************************************)
(* C8.  ensure_katex_available returns True exactly when both probes exit  *)
(* 0; in every other case (no node binary, a timeout, a non-zero exit) it  *)
(* returns False and does not raise; and the second probe is not started   *)
(* when the first exits non-zero.                                          *)
(***************************************************************************)
C8_AvailableIffBothProbesExit0 ==
    \A p \in Procs :
        InTrace(p, "ensure_katex_available") =>
            /\ Outcome(p, "ensure_katex_available", "True")
                   <=> ( /\ Outcome(p, "node --version", "exit0")
                         /\ Outcome(p, "node -e require('katex')", "exit0") )
            /\ ~Outcome(p, "ensure_katex_available", "True")
                   => Outcome(p, "ensure_katex_available", "False")
            /\ Outcome(p, "node --version", "exit1")
                   => ~InTrace(p, "node -e require('katex')")

\* node answered, the KaTeX probe found no node binary, and the function
\* returned False.
C8_Witness ==
    \E p \in Procs :
        /\ Outcome(p, "node --version", "exit0")
        /\ Outcome(p, "node -e require('katex')", "notfound")
        /\ Outcome(p, "ensure_katex_available", "False")

(***************************************************************************)
(* C9.  Every call of katex_to_svg_file ends, returning or raising: the    *)
(* probes end (by themselves or by their timeouts), and the steps after    *)
(* them (directory check, cache check, render, write) run at most once     *)
(* each, in that order.                                                    *)
(***************************************************************************)
StepRank ==
    [op \in {"node --version", "node -e require('katex')", "ensure_katex_available",
             "tex_dir.exists", "tex_dir.mkdir", "svg_file.exists",
             "_render_katex_to_svg", "svg_file.open", "svg_file.write"} |->
        CASE op = "node --version"           -> 1
          [] op = "node -e require('katex')" -> 2
          [] op = "ensure_katex_available"   -> 3
          [] op = "tex_dir.exists"           -> 4
          [] op = "tex_dir.mkdir"            -> 5
          [] op = "svg_file.exists"          -> 6
          [] op = "_render_katex_to_svg"     -> 7
          [] op = "svg_file.open"            -> 8
          [] op = "svg_file.write"           -> 9]

InOrder(p) ==
    \A i \in 1..Len(trace[p]), j \in 1..Len(trace[p]) :
        ( /\ i < j
          /\ trace[p][i].op \in DOMAIN StepRank
          /\ trace[p][j].op \in DOMAIN StepRank )
        => StepRank[trace[p][i].op] < StepRank[trace[p][j].op]

C9_EveryCallEnds ==
    /\ \A p \in Procs : Active(p) ~> Ended(p)
    /\ [](\A p \in Procs : InOrder(p))

\* A call went through every step (it made the directory and wrote the
\* file) and returned.
C9_Witness ==
    \E p \in Procs :
        /\ pc[p] = "returned"
        /\ Outcome(p, "tex_dir.mkdir", "ok")
        /\ InTrace(p, "svg_file.write")
        /\ Outcome(p, "tex_to_svg_file", "ok")

(***************************************************************************)
(* C10.  katex_hash(e) is the first 16 hexadecimal characters of the       *)
(* SHA-256 digest of str(e): 16 characters of 0-9a-f, the published digest *)
(* for the published inputs, and the same for e and for str(e).            *)
(***************************************************************************)
HexChars == (48..57) \cup (97..102)

\* Digests known from elsewhere: FIPS 180 for "abc" and "", CPython's hashlib
\* for "None" and "0".
KnownDigest(e) ==
    CASE e = Str(<<97, 98, 99>>) ->      \* "ba7816bf8f01cfea"
             <<98, 97, 55, 56, 49, 54, 98, 102, 56, 102, 48, 49, 99, 102, 101, 97>>
      [] e = Str(<<>>) ->                \* "e3b0c44298fc1c14"
             <<101, 51, 98, 48, 99, 52, 52, 50, 57, 56, 102, 99, 49, 99, 49, 52>>
      [] e = PyNone ->                   \* "dc937b59892604f5"
             <<100, 99, 57, 51, 55, 98, 53, 57, 56, 57, 50, 54, 48, 52, 102, 53>>
      [] e = PyInt(0) ->                 \* "5feceb66ffc86f38"
             <<53, 102, 101, 99, 101, 98, 54, 54, 102, 102, 99, 56, 54, 102, 51, 56>>
      [] OTHER -> <<>>

C10_HashIsTruncatedSha256 ==
    hash_out # <<>> =>
        /\ Len(hash_out) = 16
        /\ \A i \in 1..Len(hash_out) : hash_out[i] \in HexChars
        /\ KnownDigest(hash_in) # <<>> => hash_out = KnownDigest(hash_in)
        /\ hash_in.t # "str" => hash_out = katex_hash(Str(PyStr(hash_in)))

\* A negative integer has been hashed.
C10_Witness ==
    /\ hash_in.t = "int"
    /\ hash_in.v < 0
    /\ Len(hash_out) = 16

(***************************************************************************)
(* C11.  The availability probe runs before the cache lookup in every      *)
(* call and its answer is not kept from one call to the next: a call past  *)
(* the probe has run it itself, once, before anything else; and a call     *)
(* whose file is in the cache and whose probe answers False raises         *)
(* RuntimeError without looking the file up or returning its path.         *)
(***************************************************************************)
Cached(p) ==
    /\ Active(p)
    /\ fs0[p].dir
    /\ ExpectedName(args[p]) \in DOMAIN fs0[p].files

C11_ProbeBeforeCacheEveryCall ==
    \A p \in Procs :
        /\ pc[p] \notin {"idle", "probe"} =>
               /\ Count(p, "ensure_katex_available") = 1
               /\ trace[p][1].op = "node --version"
               /\ \A i \in 1..Len(trace[p]) :
                      trace[p][i].op \notin ProbeOps =>
                          \E j \in 1..(i - 1) :
                              /\ trace[p][j].op = "ensure_katex_available"
                              /\ trace[p][j].out = "True"
        /\ (Cached(p) /\ Outcome(p, "ensure_katex_available", "False")) =>
               /\ result[p] = Raise("RuntimeError")
               /\ ~InTrace(p, "svg_file.exists")

\* A request that an earlier call returned a path for, with its file still in
\* the cache, has raised RuntimeError because the KaTeX probe exited non-zero.
C11_Witness ==
    \E p \in Procs :
        /\ Cached(p)
        /\ \E e \in returned : e.request = args[p]
        /\ Outcome(p, "node -e require('katex')", "exit1")
        /\ result[p] = Raise("RuntimeError")

(***************************************************************************)
(* C12.  A degraded result is cached for good.  A call that misses the     *)
(* cache and whose LaTeX fallback fails writes the rectangle placeholder   *)
(* to its file; no step ever changes or removes a file that holds the      *)
(* placeholder; and a later call for that file never renders again,        *)
(* whatever the LaTeX pipeline could do by then: if it finds KaTeX present *)
(* it goes on to return the file's path, the placeholder still in it.      *)
(***************************************************************************)
PlaceholderCached(p) ==
    /\ Cached(p)
    /\ fs0[p].files[ExpectedName(args[p])] = Placeholder

C12_PlaceholderCachedForGood ==
    /\ [](\A p \in Procs :
            /\ (InTrace(p, "svg_file.write") /\ LatexFailed(p)) =>
                   files[svg_file[p].name] = Placeholder
            /\ PlaceholderCached(p) =>
                   /\ ~InTrace(p, "_render_katex_to_svg")
                   /\ ~InTrace(p, "tex_to_svg_file")
                   /\ ~InTrace(p, "svg_file.open")
                   /\ Outcome(p, "ensure_katex_available", "True") =>
                          pc[p] \in {"dir_exists", "file_exists", "returned"}
                   /\ pc[p] = "returned" =>
                          /\ result[p] = Return(Path(ExpectedName(args[p])))
                          /\ files[result[p].path.name] = Placeholder)
    /\ [][\A n \in DOMAIN files :
             files[n] = Placeholder =>
                 (dirExists' /\ n \in DOMAIN files' /\ files'[n] = Placeholder)]_vars

\* A call has returned the placeholder from the cache although the LaTeX
\* pipeline rendered well the last time it ran, which was after the
\* placeholder was written.
C12_Witness ==
    \E p \in Procs :
        /\ PlaceholderCached(p)
        /\ pc[p] = "returned"
        /\ files[result[p].path.name] = Placeholder
        /\ tex_last = "ok"

(***************************************************************************)
(* C13.  Distinct requests never share a cache file: two calls that return *)
(* and that differ in expression, in environment or in kwargs (as dicts)   *)
(* have different cache keys and return different paths.                   *)
(***************************************************************************)
Differ(r1, r2) ==
    \/ r1.expression # r2.expression
    \/ r1.environment # r2.environment
    \/ ~DictEq(r1.kwargs, r2.kwargs)

C13_DistinctRequestsDistinctFiles ==
    \A a \in returned, b \in returned :
        Differ(a.request, b.request) =>
            /\ KeyOf(a.request) # KeyOf(b.request)
            /\ a.path # b.path

(***************************************************************************)
(* C14.  The SVG content written on a cache miss is a function of the      *)
(* expression and of the LaTeX outcome only: neither environment nor       *)
(* kwargs reaches tex_to_svg_file, and two misses with the same expression *)
(* and the same LaTeX outcome wrote the same content, to different files   *)
(* when their requests differ.                                             *)
(***************************************************************************)
\* The content for an expression and a LaTeX outcome.
Content(expression, latex) ==
    IF latex = "ok" THEN LatexSvg(MathExpression(expression)) ELSE Placeholder

Called(fn) == fn_in # Unbound /\ fn_in.fn = fn /\ fn_out # Unbound

\* The events of the call that are warnings.
Warnings == {i \in 1..Len(fn_out.events) : fn_out.events[i].op = "logger.warning"}

HandedToLatex ==
    {fn_out.events[i].arg :
        i \in {j \in 1..Len(fn_out.events) : fn_out.events[j].op = "tex_to_svg_file"}}

InMathMode(s) ==
    \/ Len(s) >= 1 /\ s[1] = 36
    \/ Len(s) >= 6 /\ SubSeq(s, 1, 6) = <<92, 98, 101, 103, 105, 110>>

C16_LatexGetsMathMode ==
    Called("_render_katex_to_svg") =>
        /\ HandedToLatex =
               {IF InMathMode(fn_in.expression) THEN fn_in.expression
                ELSE <<36>> \o fn_in.expression \o <<36>>}
        /\ \A s \in HandedToLatex : InMathMode(s)

\* An expression that starts with "\begin" went to the LaTeX pipeline as it
\* was, and the pipeline rendered it.
C16_Witness ==
    /\ Called("_render_katex_to_svg")
    /\ Len(fn_in.expression) > 6
    /\ fn_in.expression[1] = 92
    /\ fn_in.expression \in HandedToLatex
    /\ fn_out.ret.kind = "latex"

(***************************************************************************)
(* C17.  With two processes calling for the same cache key, the existence  *)
(* test of a call succeeds only once the complete SVG content is in the    *)
(* file: a call never takes the cache-hit path to a file that is empty or  *)
(* partly written.                                                         *)
(***************************************************************************)
C17_HitOnlyOnCompleteFile ==
    \A p \in ConcProcs :
        (pc[p] = "file_exists" /\ Exists(SvgFiles[args[p]])) =>
            IsSvg(files[SvgFiles[args[p]].name])

(***************************************************************************)
(* C18.  When two processes call while tex_dir does not exist yet, a call  *)
(* that found tex_dir missing still completes and returns a path: it does  *)
(* not fail because the other process made the directory between its       *)
(* existence test and its mkdir.                                           *)
(***************************************************************************)
C18_DirectoryRaceHarmless ==
    \A p \in ConcProcs :
        Outcome(p, "tex_dir.exists", "False") => result[p].kind # "raise"

(***************************************************************************)
(* C19.  _katex_to_svg_via_mathjax reports every failure as an exception   *)
(* and returns nothing but SVG: a non-zero exit of node raises ValueError  *)
(* with stderr in its message ("Unknown conversion error" when stderr is   *)
(* empty); stdout that, stripped, does not start with "<svg" raises        *)
(* ValueError; a timeout raises ValueError; a missing node binary raises   *)
(* RuntimeError; and what is returned starts with "<svg" or is one of the  *)
(* hardcoded SVG documents.                                                *)
(***************************************************************************)
\* s, without the white space before it, starts with "<svg".
SvgAfterSpace(s) ==
    \E i \in 1..Len(s) :
        /\ \A j \in 1..(i - 1) : s[j] \in Whitespace
        /\ i + 3 <= Len(s)
        /\ SubSeq(s, i, i + 3) = <<60, 115, 118, 103>>

\* node exited 0 and wrote SVG.
Converted(node) ==
    /\ node.kind = "exit"
    /\ node.returncode = 0
    /\ SvgAfterSpace(node.stdout)

C19_FailuresAreExceptions ==
    Called("_katex_to_svg_via_mathjax") =>
        LET node == fn_in.node
        IN  /\ (node.kind = "exit" /\ node.returncode # 0) =>
                   /\ fn_out.raised = "ValueError"
                   /\ fn_out.message =
                          \* "KaTeX to SVG conversion failed: "
                          <<75, 97, 84, 101, 88, 32, 116, 111, 32, 83, 86, 71, 32, 99, 111, 110, 118, 101, 114, 115, 105, 111, 110, 32, 102, 97, 105, 108, 101, 100, 58, 32>>
                          \o (IF node.stderr = <<>>
                              THEN \* "Unknown conversion error"
                                   <<85, 110, 107, 110, 111, 119, 110, 32, 99, 111, 110, 118, 101, 114, 115, 105, 111, 110, 32, 101, 114, 114, 111, 114>>
                              ELSE node.stderr)
            /\ (node.kind = "exit" /\ node.returncode = 0 /\ ~SvgAfterSpace(node.stdout)) =>
                   fn_out.raised = "ValueError"
            /\ node.kind = "timeout" => fn_out.raised = "ValueError"
            /\ node.kind = "notfound" => fn_out.raised = "RuntimeError"
            /\ fn_out.raised = "none" =>
                   /\ Converted(node)
                   /\ \/ /\ fn_out.ret.kind = "text"
                         /\ SubSeq(fn_out.ret.text, 1, 4) = <<60, 115, 118, 103>>
                      \/ /\ fn_out.ret.kind = "literal"
                         /\ fn_out.ret.lines[1] = "<?xml version='1.0' encoding='UTF-8'?>"
                         /\ fn_out.ret.lines[Len(fn_out.ret.lines)] = "</svg>"

\* node was killed by a signal without a word on stderr, and the function
\* raised ValueError with "Unknown conversion error".
C19_Witness ==
    /\ Called("_katex_to_svg_via_mathjax")
    /\ fn_in.node.kind = "exit"
    /\ fn_in.node.returncode < 0
    /\ fn_in.node.stderr = <<>>
    /\ fn_out.raised = "ValueError"
    /\ Len(fn_out.message) = 56

(***************************************************************************)
(* C20.  For the expressions "E = mc^2" and "x", and for no other,         *)
(* _katex_to_svg_via_mathjax returns the hardcoded SVG of                  *)
(* _create_simple_math_svg instead of the converted output, and only after *)
(* node has run, exited 0 and written output that starts with "<svg";      *)
(* for every other expression it returns _improve_svg_for_manim applied to *)
(* the stripped output of node.                                            *)
(***************************************************************************)
C20_HardcodedForKnownExpressions ==
    Called("_katex_to_svg_via_mathjax") =>
        /\ fn_out.events[1].op = "node -e conversion_script"
        /\ IF fn_in.expression \in {<<69, 32, 61, 32, 109, 99, 94, 50>>, <<120>>}
           THEN /\ fn_out.raised = "none" <=> Converted(fn_in.node)
                /\ fn_out.raised = "none" =>
                       /\ fn_out.ret = _create_simple_math_svg(fn_in.expression)
                       /\ fn_out.ret.kind = "literal"
                       /\ fn_out.ret.lines[IF fn_in.expression = <<120>> THEN 9 ELSE 13]
                              = (IF fn_in.expression = <<120>>
                                 THEN "<use x='169.008582' y='-3.586587' xlink:href='#g0-120'/>"
                                 ELSE "<use x='152.485491' y='-3.586587' xlink:href='#g0-69'/>")
                       /\ fn_out.events[Len(fn_out.events)].op = "_create_simple_math_svg"
           ELSE fn_out.raised = "none" =>
                   /\ fn_out.ret = Text(_improve_svg_for_manim(Strip(fn_in.node.stdout)))
                   /\ \A i \in 1..Len(fn_out.events) :
                          fn_out.events[i].op # "_create_simple_math_svg"

\* For "E = mc^2" node converted the expression to an SVG with a title and
\* the function returned the hardcoded SVG; the title is not in it.
C20_Witness ==
    /\ Called("_katex_to_svg_via_mathjax")
    /\ fn_in.expression = <<69, 32, 61, 32, 109, 99, 94, 50>>
    /\ fn_in.node.kind = "exit"
    /\ Contains(fn_in.node.stdout, <<60, 116, 105, 116, 108, 101, 62>>)    \* "<title>"
    /\ fn_out.raised = "none"
    /\ fn_out.ret.kind = "literal"
    /\ Len(fn_out.ret.lines) = 19

(***************************************************************************)
(* C21.  _render_katex_to_svg_alternative falls back to                    *)
(* _render_katex_to_svg exactly when the katex binary is not found; when   *)
(* the CLI exits 0 its (stripped) stdout is returned inside the            *)
(* foreignObject of an SVG; when it exits with another code a ValueError   *)
(* is raised and there is no fallback.                                     *)
(***************************************************************************)
FellBack == \E i \in 1..Len(fn_out.events) : fn_out.events[i].op = "_render_katex_to_svg"

\* html occurs in text at or after position i > 0 and the literal sub after it.
ThenHtmlThen(text, i, html, sub) ==
    /\ i # 0
    /\ Find(text, html, i) # 0
    /\ Find(text, sub, Find(text, html, i) + Len(html)) # 0

\* text is an <svg> element holding html inside a <foreignObject>.
WrappedInForeignObject(text, html) ==
    /\ StartsWith(text, <<60, 115, 118, 103, 32>>)                          \* "<svg "
    \* "<foreignObject " ... html ... "</foreignObject>"
    /\ ThenHtmlThen(text, LitAt(text, Find(text, <<60, 102, 111, 114, 101, 105, 103, 110, 79, 98, 106, 101, 99, 116, 32>>, 1),
                                <<60, 102, 111, 114, 101, 105, 103, 110, 79, 98, 106, 101, 99, 116, 32>>),
                    html, <<60, 47, 102, 111, 114, 101, 105, 103, 110, 79, 98, 106, 101, 99, 116, 62>>)
    \* "</svg>" ends the text
    /\ MatchAt(text, Len(text) - 5, <<60, 47, 115, 118, 103, 62>>)

C21_FallbackOnlyWhenCliMissing ==
    Called("_render_katex_to_svg_alternative") =>
        /\ FellBack <=> fn_in.katex.kind = "notfound"
        /\ fn_in.katex.kind = "notfound" =>
              /\ fn_out.ret = _render_katex_to_svg(fn_in.expression, fn_in.tex).ret
              /\ fn_out.raised = _render_katex_to_svg(fn_in.expression, fn_in.tex).raised
        /\ (fn_in.katex.kind = "exit" /\ fn_in.katex.returncode = 0) =>
              /\ fn_out.raised = "none"
              /\ fn_out.ret.kind = "text"
              /\ WrappedInForeignObject(fn_out.ret.text, Strip(fn_in.katex.stdout))
        /\ (fn_in.katex.kind = "exit" /\ fn_in.katex.returncode # 0) =>
              /\ fn_out.raised = "ValueError"
              /\ fn_out.ret = PyNone

\* The CLI wrote an SVG-less HTML line with white space around it and
\* exited 0, and the wrapped text was returned.
C21_Witness ==
    /\ Called("_render_katex_to_svg_alternative")
    /\ fn_in.katex.kind = "exit"
    /\ fn_in.katex.returncode = 0
    /\ fn_in.katex.stdout # Strip(fn_in.katex.stdout)
    /\ Strip(fn_in.katex.stdout) # <<>>
    /\ fn_out.ret.kind = "text"
    /\ ~FellBack

(***************************************************************************)
(* C22.  _improve_svg_for_manim is idempotent: applied to its own output   *)
(* it returns that output unchanged; after one pass the text holds no      *)
(* <title>...</title> element, no stroke="currentColor"                    *)
(* fill="currentColor" pair, no six-digit hex fill and no                  *)
(* stroke-width="1".                                                       *)
(***************************************************************************)
\* The pattern matches somewhere in text.
Remains(pattern, text) == FirstMatch(pattern, text, 1)[1] # 0

C22_ImproveIdempotent ==
    Called("_improve_svg_for_manim") =>
        /\ _improve_svg_for_manim(fn_out.ret.text) = fn_out.ret.text
        /\ ~Remains("<title[^>]*>.*?</title>", fn_out.ret.text)
        /\ ~Remains("\\s+stroke=\"currentColor\"\\s+fill=\"currentColor\"", fn_out.ret.text)
        /\ ~Remains("fill=\"#[0-9A-Fa-f]{6}\"", fn_out.ret.text)
        /\ ~Remains("stroke-width=\"1\"", fn_out.ret.text)

(***************************************************************************)
(* C23.  For the expression "x", _create_proper_math_svg returns the       *)
(* hardcoded glyph SVG of x (path id g0-120), the one that                 *)
(* _create_simple_math_svg returns for "x".                                *)
(***************************************************************************)
C23_ProperXIsGlyphSvg ==
    (Called("_create_proper_math_svg") /\ fn_in.expression = <<120>>) =>
        /\ fn_out.ret.kind = "literal"
        /\ fn_out.ret = _create_simple_math_svg(<<120>>)

====
